---- MODULE Spec2Model ----
(***************************************************************************)
(* wsPrism gateway: connection lifecycle (transport/ws.rs), session        *)
(* registry (realtime/core/session_registry.rs), presence                  *)
(* (realtime/core/presence.rs), egress (realtime/core/realtime.rs) and     *)
(* tenant policy (policy/engine.rs).                                       *)
(*                                                                         *)
(* Every connection is one task running ws_upgrade and then run_session.   *)
(* Tasks run in parallel on the multi-threaded runtime, so the shared      *)
(* maps are modelled at the granularity of one DashMap / atomic operation  *)
(* per step; a DashMap guard that the code keeps alive across statements   *)
(* is a lock variable.                                                     *)
(***************************************************************************)
EXTENDS Integers, Sequences, FiniteSets, TLC

\* ------------------------------------------------------------------ bounds
\* number of upgrade requests (each connection id is used once)
NConn == 2
\* largest session id a client passes as ?sid= (ids are 1..MaxClientSid)
MaxClientSid == 1
\* capacity of a session's outbound queue (mpsc::channel(1024) in the code)
QueueCap == 2
\* number of room names clients use
NRooms == 1
\* inbound frames a client sends on one connection
MaxFrames == 3
MaxPerUser == 2
MaxTotal == 1
\* bits of an atomic counter and of a usize reference count (64 in the code)
AtomicBits == 8
\* QoS::Reliable { timeout_ms } of ChatService
ChatTimeoutMs == 1500
\* number of client addresses upgrades come from
NIps == 2
\* the last instant of the handshake clock, in ms
MaxClock == 2000
\* a LeakyBucket's f64 tokens are kept in units of 1/TokenScale token, so that
\* whole milliseconds of refill are exact
TokenScale == 1000
\* bits of a u32 and of a u64 in the token bucket of the policy engine, scaled down
U32Bits == 8
U64Bits == 24
\* most clock readings and most allow() calls on the bucket of SpecBucket
MaxTicks == 3
MaxAllows == 4

Conns == 1..NConn
ClientSids == 1..MaxClientSid
Rooms == 1..NRooms
NoConn == 0
NoSid == 0
NoKey == <<>>
NoRoom == 0

\* ------------------------------------------------------------- identities
\* one tenant is configured; resolve_ticket knows one user
Tenant == "t1"

resolve_ticket(ticket) == IF ticket = "dev" THEN "user:dev" ELSE "AuthFailed"

Tickets == {"dev", "bad"}

user_key(t, u) == <<t, u>>
session_key(t, u, s) == <<t, u, s>>
room_key(t, r) == <<t, r>>

UserId == resolve_ticket("dev")
UK == user_key(Tenant, UserId)

\* ------------------------------------------------------------ map helpers
\* a DashMap is a function whose domain is the set of present keys
EmptyMap == [k \in {} |-> 0]
Has(m, k) == k \in DOMAIN m
Put(m, k, v) == [x \in (DOMAIN m) \cup {k} |-> IF x = k THEN v ELSE m[x]]
Del(m, k) == [x \in (DOMAIN m) \ {k} |-> m[x]]
GetOr(m, k, d) == IF k \in DOMAIN m THEN m[k] ELSE d

\* ----------------------------------------------------------------- config
SessionModes == {"single", "multi"}
OnExceeds == {"deny", "kick_oldest"}

\* TenantPolicy::validate, the session-policy part
validate(p) ==
    IF p.mode = "single"
    THEN p.max_sessions_per_user = 1
    ELSE p.max_sessions_per_user # 0

\* ---------------------------------------------------------------- messages
\* what travels on an outbound queue: sys.* JSON texts, control frames and
\* service payloads.  trace_id is the connection id of the task that built it.
sys_authed_json(s, trace) == [k |-> "authed", code |-> "", msg |-> "", arg |-> s, trace_id |-> trace]
sys_error_json(code, msg, trace) ==
    [k |-> "error", code |-> code, msg |-> msg, arg |-> 0, trace_id |-> trace]
sys_kicked_json(reason, trace) == [k |-> "kicked", code |-> reason, msg |-> "", arg |-> 0, trace_id |-> trace]
sys_joined_json(room, trace) == [k |-> "joined", code |-> "", msg |-> "", arg |-> room, trace_id |-> trace]
sys_left_json(trace) == [k |-> "left", code |-> "", msg |-> "", arg |-> 0, trace_id |-> trace]
CloseFrame(code, reason) == [k |-> "close", code |-> reason, msg |-> "", arg |-> code, trace_id |-> 0]
PingMsg == [k |-> "ping", code |-> "", msg |-> "", arg |-> 0, trace_id |-> 0]
PongMsg == [k |-> "pong", code |-> "", msg |-> "", arg |-> 0, trace_id |-> 0]
BinaryMsg(from) == [k |-> "binary", code |-> "", msg |-> "", arg |-> from, trace_id |-> 0]
ChatMsg(from) == [k |-> "chat", code |-> "", msg |-> "", arg |-> from, trace_id |-> 0]

VARIABLES
    cfg,                \* tenant limits and policy, fixed at startup
    pc,                 \* pc[c]: where connection c's task stands
    sid,                \* sid[c]: session id of connection c
    loc,                \* loc[c]: the task's local variables
    why,                \* why[c]: how the task ended
    next_sid,           \* NEXT_SID
    queue,              \* queue[c]: the mpsc channel of connection c
    enq,                \* enq[c]: everything ever enqueued on queue[c], in order
    sock,               \* sock[c]: messages written to the client socket
    nframes,            \* nframes[c]: inbound frames received so far
    active_room,        \* SessionState.active_room
    conn_tokens,        \* SessionState.conn_limiter tokens
    tenant_tokens,      \* TenantPolicyRuntime.tenant_limiter tokens
    sessions,           \* SessionRegistry.sessions
    user_index,         \* SessionRegistry.user_index
    tenant_counts,      \* SessionRegistry.tenant_counts
    seq,                \* SessionRegistry.seq
    tc_guard,           \* holder of the RefMut into tenant_counts
    room_to_sessions, session_to_rooms, room_to_users, user_to_rooms,
    user_room_refs, tenant_room_counts,     \* Presence
    refs_guard,         \* holder of the RefMut into user_room_refs, per ref key
    ws_active_sessions, \* the ws_sessions_active gauge
    last,               \* last[c]: the last inbound frame and what the loop did with it
    evicted,            \* connections whose registry entry evict_oldest has removed
    draining,           \* the draining flag
    shutdown,           \* main's graceful-shutdown task: its position and its locals
    prior,              \* user_room_refs as it is when connection 1's first try_join begins
    drop_count,         \* DROP_COUNT
    handshake,          \* HandshakeDefender, the clock, and the HTTP answers to upgrades
    hot,                \* a binary frame's bytes and what decode_hot_frame made of them
    bucket,             \* a TokenBucket of the policy engine, its clock and its last verdict
    tally,              \* sessions registered by try_insert, handles returned by remove_session
    call,               \* the last call made on Presence from outside a connection loop
    send_fail_count     \* SEND_FAIL_COUNT

regvars == <<sessions, user_index, tenant_counts, seq, tc_guard, evicted>>
presvars == <<room_to_sessions, session_to_rooms, room_to_users, user_to_rooms,
              user_room_refs, tenant_room_counts, refs_guard>>
chanvars == <<queue, enq, sock>>
polvars == <<conn_tokens, tenant_tokens, last>>
othervars == <<draining, shutdown, prior, drop_count, send_fail_count, handshake, hot, bucket,
               call>>
mainvars == <<draining, shutdown, prior, drop_count, send_fail_count, handshake, hot, bucket,
              tally, call>>
sidevars == <<send_fail_count, handshake, hot, bucket, tally, call>>
relvars == <<draining, shutdown, prior, drop_count, handshake, hot, bucket, tally, call>>
vars == <<cfg, pc, sid, loc, why, next_sid, queue, enq, sock, nframes, active_room,
          conn_tokens, tenant_tokens, sessions, user_index, tenant_counts, seq,
          tc_guard, room_to_sessions, session_to_rooms, room_to_users,
          user_to_rooms, user_room_refs, tenant_room_counts, refs_guard,
          ws_active_sessions, last, evicted, draining, shutdown, prior, drop_count,
          handshake, hot, bucket, tally, call, send_fail_count>>


\* ----------------------------------------------------------- token bucket
Min(a, b) == IF a < b THEN a ELSE b
Max(a, b) == IF a > b THEN a ELSE b

\* TokenBucket::new: capacity = burst.max(1), tokens = capacity
TokenBucketNew(burst) == Max(burst, 1)

\* TokenBucket::refill after elapsed_ms since `last`
refill(tokens, elapsed_ms, rps, burst) ==
    IF elapsed_ms < 50
    THEN tokens
    ELSE LET add == (elapsed_ms * Max(rps, 1)) \div 1000
         IN IF add > 0 THEN Min(tokens + add, Max(burst, 1)) ELSE tokens

\* TokenBucket::allow: [ok, tokens left]
allow(tokens, elapsed_ms, rps, burst) ==
    LET t == refill(tokens, elapsed_ms, rps, burst)
    IN IF t = 0 THEN [ok |-> FALSE, tokens |-> t] ELSE [ok |-> TRUE, tokens |-> t - 1]

\* time since a bucket's last refill when a frame arrives, in ms
Elapsed == {0, 1000}

\* ---------------------------------------------------------- hot frames
\* the byte values frames are built from, and the longest frame considered
ByteVals == {1, 2, 127}
MaxHotLen == 9

HOT_FLAG_SEQ_PRESENT == 1

\* Option<u32>
NoSeq == [some |-> FALSE, v |-> 0]
SomeSeq(x) == [some |-> TRUE, v |-> x]

HotFrame(v, svc_id, opcode, flags, sq, payload) ==
    [v |-> v, svc_id |-> svc_id, opcode |-> opcode, flags |-> flags, seq |-> sq,
     payload |-> payload]
NoHotFrame == HotFrame(0, 0, 0, 0, NoSeq, <<>>)

\* Result<HotFrame>, a panic being the third way out of the function
NotDecoded == [tag |-> "none", code |-> "", msg |-> "", frame |-> NoHotFrame]
HotOk(f) == [tag |-> "ok", code |-> "", msg |-> "", frame |-> f]
HotErr(code, msg) == [tag |-> "err", code |-> code, msg |-> msg, frame |-> NoHotFrame]
HotPanic == [tag |-> "panic", code |-> "", msg |-> "", frame |-> NoHotFrame]

\* Buf::remaining
remaining(buf) == Len(buf)

\* Buf::get_u8: the next byte and what is left; it panics on an empty buffer
get_u8(buf) ==
    IF remaining(buf) < 1
    THEN [panic |-> TRUE, v |-> 0, rest |-> buf]
    ELSE [panic |-> FALSE, v |-> Head(buf), rest |-> Tail(buf)]

\* four bytes read most significant first
get_u32_be(buf) ==
    IF remaining(buf) < 4
    THEN [panic |-> TRUE, v |-> 0, rest |-> buf]
    ELSE [panic |-> FALSE,
          v |-> buf[4] + 256 * buf[3] + 65536 * buf[2] + 16777216 * buf[1],
          rest |-> SubSeq(buf, 5, Len(buf))]

\* Buf::get_u32_le: four bytes, least significant first; it panics on fewer
get_u32_le(buf) ==
    IF remaining(buf) < 4
    THEN [panic |-> TRUE, v |-> 0, rest |-> buf]
    ELSE [panic |-> FALSE,
          v |-> buf[1] + 256 * buf[2] + 65536 * buf[3] + 16777216 * buf[4],
          rest |-> SubSeq(buf, 5, Len(buf))]

\* flags & HOT_FLAG_SEQ_PRESENT, the mask being a single bit
seq_present(flags) == (flags \div HOT_FLAG_SEQ_PRESENT) % 2 # 0

\* decode_hot_frame
decode_hot_frame(buf) ==
    IF remaining(buf) < 4
    THEN HotErr("BAD_REQUEST", "hot frame too short")
    ELSE LET v == get_u8(buf)
             s == get_u8(v.rest)
             o == get_u8(s.rest)
             f == get_u8(o.rest)
         IN IF v.panic THEN HotPanic
            ELSE IF v.v # 1 THEN HotErr("UNSUPPORTED_VERSION", "")
            ELSE IF s.panic \/ o.panic \/ f.panic THEN HotPanic
            ELSE IF seq_present(f.v)
                 THEN IF remaining(f.rest) < 4
                      THEN HotErr("BAD_REQUEST", "seq flag set but missing u32")
                      ELSE LET q == get_u32_le(f.rest)
                           IN IF q.panic THEN HotPanic
                              ELSE HotOk(HotFrame(v.v, s.v, o.v, f.v, SomeSeq(q.v), q.rest))
                 ELSE HotOk(HotFrame(v.v, s.v, o.v, f.v, NoSeq, f.rest))

\* u32::to_le_bytes
to_le_bytes(x) ==
    <<x % 256, (x \div 256) % 256, (x \div 65536) % 256, (x \div 16777216) % 256>>

\* the wire layout of a hot frame: [v][svc_id][opcode][flags], the sequence
\* number when flagged, then the payload
encode_hot_frame(f) ==
    <<f.v, f.svc_id, f.opcode, f.flags>>
        \o (IF seq_present(f.flags) THEN to_le_bytes(f.seq.v) ELSE <<>>)
        \o f.payload

NoHot == [buf |-> <<>>, res |-> NotDecoded]

\* no call has been made on Presence from outside
NoCall == [op |-> "", uk |-> NoKey, sk |-> NoKey, rk |-> NoKey, err |-> "", rooms |-> {},
           turn |-> 0]

\* the tally after n sessions have been registered and none removed
TallyOf(n) == [inserted |-> n, returned |-> 0]

\* ------------------------------------------------- policy token bucket
NoBucket == [on |-> FALSE]

\* u32 and u64 scaled down to U32Bits and U64Bits bits
U32 == 2 ^ U32Bits
U64 == 2 ^ U64Bits

\* TokenBucket::new at the instant now
TokenBucket_new(rps, burst, now) ==
    [rps |-> Max(rps, 1), capacity |-> Max(burst, 1), tokens |-> Max(burst, 1), last |-> now]

\* the refill of unbounded integers: elapsed_ms * rps / 1000, clamped
refill_exact(b, now, checked) ==
    LET elapsed == now - b.last
        add == (elapsed * b.rps) \div 1000
    IN [panic |-> FALSE,
        b |-> IF elapsed >= 50 /\ add > 0
              THEN [b EXCEPT !.tokens = Min(b.tokens + add, b.capacity), !.last = now]
              ELSE b]

\* TokenBucket::refill at the instant now, in the widths of the code:
\* (elapsed.as_millis() as u64 * rps as u64 / 1000) as u32, then tokens + add in
\* u32.  `as` truncates; * and + outside their type panic in a build with
\* overflow checks (checked) and wrap in one without
TokenBucket_refill(b, now, checked) ==
    LET elapsed == now - b.last
        ms == elapsed % U64
        prod == ms * b.rps
        add == ((prod % U64) \div 1000) % U32
        sum == b.tokens + add
    IN IF elapsed < 50 THEN [panic |-> FALSE, b |-> b]
       ELSE IF checked /\ prod >= U64 THEN [panic |-> TRUE, b |-> b]
       ELSE IF add = 0 THEN [panic |-> FALSE, b |-> b]
       ELSE IF checked /\ sum >= U32 THEN [panic |-> TRUE, b |-> b]
       ELSE [panic |-> FALSE,
             b |-> [b EXCEPT !.tokens = Min(sum % U32, b.capacity), !.last = now]]

\* TokenBucket::allow at the instant now: the verdict and the bucket afterwards
TokenBucket_allow(b, now, checked) ==
    LET r == TokenBucket_refill(b, now, checked)
    IN IF r.panic THEN [ok |-> "panic", b |-> r.b]
       ELSE IF r.b.tokens = 0 THEN [ok |-> "false", b |-> r.b]
       ELSE [ok |-> "true", b |-> [r.b EXCEPT !.tokens = @ - 1]]

\* ------------------------------------------------------ handshake defender
Ips == 1..NIps

\* LeakyBucket::new at instant `now`
LeakyBucketNew(capacity, refill_per_sec, now) ==
    [capacity |-> Max(capacity, 1), tokens |-> Max(capacity, 1) * TokenScale,
     refill_per_sec |-> Max(refill_per_sec, 1), last |-> now]

\* LeakyBucket::refill at instant `now`
LeakyRefill(b, now) ==
    [b EXCEPT !.last = now,
              !.tokens = Min(b.tokens + (now - b.last) * b.refill_per_sec,
                             b.capacity * TokenScale)]

\* ceil(missing / refill_per_sec) in seconds, at least 1
RetryAfter(missing, refill_per_sec) ==
    Max((missing + refill_per_sec * TokenScale - 1) \div (refill_per_sec * TokenScale), 1)

\* the bucket refilled and nothing taken from it
try_take_free(b, cost, now) ==
    [ok |-> TRUE, retry |-> 0, b |-> LeakyRefill(b, now)]

\* LeakyBucket::try_take: [ok, retry: the seconds of Err, b: the bucket afterwards]
try_take(b, cost, now) ==
    LET r == LeakyRefill(b, now)
        c == Max(cost, 1) * TokenScale
    IN IF r.tokens >= c
       THEN [ok |-> TRUE, retry |-> 0, b |-> [r EXCEPT !.tokens = @ - c]]
       ELSE [ok |-> FALSE, retry |-> RetryAfter(c - r.tokens, r.refill_per_sec), b |-> r]

\* retry_after_header_secs
retry_after_header_secs(secs) == Max(secs, 1)

\* the answer of ws_upgrade to connection c: nothing yet, 429, or the upgrade;
\* ret is what check returned (0 for Ok), before is the global bucket's token
\* count, refilled, when check was called, turn the number of that call among the
\* calls that reached the global bucket, at the instant the per-IP bucket was charged
NoResponse ==
    [ip |-> 0, status |-> 0, retry_after |-> 0, ret |-> 0, by |-> "", before |-> 0,
     turn |-> 0, at |-> 0]

TooManyRequests(r, ra, by) ==
    [r EXCEPT !.status = 429, !.retry_after = retry_after_header_secs(ra), !.ret = ra,
              !.by = by]

\* HandshakeDefender::new with cfg.enabled = false: check answers Ok and touches
\* nothing
HandshakeOff ==
    [cfg |-> [enabled |-> FALSE, global_burst |-> 1, global_rps |-> 1, per_ip_burst |-> 1,
              per_ip_rps |-> 1, max_ip_entries |-> 1],
     now |-> 0, global |-> LeakyBucketNew(1, 1, 0), turns |-> 0, per_ip |-> EmptyMap,
     resp |-> [c \in Conns |-> NoResponse]]

\* HandshakeDefender::new(cfg) at instant 0
HandshakeDefenderNew(hcfg) ==
    [HandshakeOff EXCEPT !.cfg = hcfg,
                         !.global = LeakyBucketNew(hcfg.global_burst, hcfg.global_rps, 0)]

\* ------------------------------------------------------------------- Init
LocInit == [cur |-> 0, keys |-> {}, victim |-> NoKey, vseq |-> 0, vconn |-> NoConn,
            rm_key |-> NoKey, rm_ret |-> "", cs_key |-> NoKey, cs_rooms |-> {},
            cs_ret |-> "", lv_room |-> NoKey, lv_key |-> NoKey, lv_ret |-> "",
            room_empty |-> FALSE, tj_room |-> NoRoom, is_new_room |-> FALSE,
            ti_before |-> 0, pub_keys |-> {}, pub_futs |-> {}, do_timeout |-> FALSE,
            tj_err |-> ""]

\* does try_insert refuse at the counter value `current`
CapReached(current, max_total) == max_total > 0 /\ current >= max_total

\* the shape of TenantLimits and TenantPolicy; the defaults of config/schema.rs with
\* max_frame_bytes, rate_limit_rps and rate_limit_burst scaled down.  The session
\* and room limits are the fields ws_upgrade, run_session and try_join read from
\* t_cfg.limits; 0 means no limit.
DefaultLimits == [max_frame_bytes |-> 4, max_sessions_total |-> 0, max_users_per_room |-> 0,
                  max_rooms_per_user |-> 0, max_rooms_total |-> 0]
DefaultSessionPolicy == [mode |-> "multi", max_sessions_per_user |-> 4, on_exceed |-> "deny"]
DefaultPolicy == [rate_limit_rps |-> 1, rate_limit_burst |-> 1, rate_limit_scope |-> "connection",
                  ext_allowlist |-> {<<"room", "join">>, <<"room", "leave">>},
                  hot_allowlist |-> {}, sessions |-> DefaultSessionPolicy,
                  hot_error_mode |-> "sys_error", hot_requires_active_room |-> TRUE]

SessionPolicies == {p \in [mode : SessionModes, max_sessions_per_user : 0..MaxPerUser,
                           on_exceed : OnExceeds] : validate(p)}

\* the configurations of the admission specification: every session policy, with and
\* without a tenant cap
Configs == {[limits |-> [DefaultLimits EXCEPT !.max_sessions_total = n],
             policy |-> [DefaultPolicy EXCEPT !.sessions = p]] :
            n \in 0..MaxTotal, p \in SessionPolicies}

\* main before the shutdown signal: the server runs; `sessions` is the snapshot
\* best_effort_shutdown_all iterates, `sent` the part of it already handled, and
\* `frames` the number of frames each connection had received when the flag was set
ShutdownInit == [pc |-> "serving", sessions |-> {}, sent |-> {}, frames |-> [c \in Conns |-> 0]]

\* no inbound frame handled yet
NoFrame == [kind |-> "none", lane |-> "none", big |-> FALSE, dec |-> "none", act |-> "none",
            checks |-> <<>>,
            conn_asked |-> FALSE, conn_empty |-> FALSE]

\* the state at startup, the handshake defender aside
FreshState ==
    /\ pc = [c \in Conns |-> "new"]
    /\ sid = [c \in Conns |-> NoSid]
    /\ loc = [c \in Conns |-> LocInit]
    /\ why = [c \in Conns |-> ""]
    /\ next_sid = 1
    /\ queue = [c \in Conns |-> <<>>]
    /\ enq = [c \in Conns |-> <<>>]
    /\ sock = [c \in Conns |-> <<>>]
    /\ nframes = [c \in Conns |-> 0]
    /\ active_room = [c \in Conns |-> NoRoom]
    /\ conn_tokens = [c \in Conns |-> 0]
    /\ tenant_tokens = TokenBucketNew(cfg.policy.rate_limit_burst)
    /\ sessions = EmptyMap
    /\ user_index = EmptyMap
    /\ tenant_counts = EmptyMap
    /\ seq = 1
    /\ tc_guard = NoConn
    /\ room_to_sessions = EmptyMap
    /\ session_to_rooms = EmptyMap
    /\ room_to_users = EmptyMap
    /\ user_to_rooms = EmptyMap
    /\ user_room_refs = EmptyMap
    /\ tenant_room_counts = EmptyMap
    /\ refs_guard = {}
    /\ ws_active_sessions = 0
    /\ last = [c \in Conns |-> NoFrame]
    /\ evicted = {}
    /\ draining = FALSE
    /\ drop_count = 0
    /\ shutdown = ShutdownInit
    /\ prior = EmptyMap

InitState ==
    /\ FreshState
    /\ handshake = HandshakeOff /\ hot = NoHot /\ bucket = NoBucket
    /\ call = NoCall /\ send_fail_count = 0
    /\ tally = TallyOf(GetOr(tenant_counts, Tenant, 0))

Init ==
    /\ cfg \in Configs
    /\ InitState

\* ---------------------------------------------------------------- channel
\* the receiver half lives until run_session returns
RxOpen(d) == pc[d] \notin {"new", "gone"}

\* mpsc::Sender::try_send: enqueue unless the queue is full or closed
try_send_ok(d) == RxOpen(d) /\ Len(queue[d]) < QueueCap

try_send_front(q, d, m) == IF try_send_ok(d) THEN [q EXCEPT ![d] = <<m>> \o @] ELSE q

try_send(q, d, m) == IF try_send_ok(d) THEN [q EXCEPT ![d] = Append(@, m)] ELSE q

\* mpsc::Receiver::recv: the oldest message
recv(q) == Head(q)

MyKey(c) == session_key(Tenant, UserId, sid[c])

\* -------------------------------------------------------- session registry
count_user_sessions(uk) == IF Has(user_index, uk) THEN Cardinality(user_index[uk]) ELSE 0

count_tenant_sessions(t) == GetOr(tenant_counts, t, 0)

len_sessions == Cardinality(DOMAIN sessions)

get_session(k) == IF Has(sessions, k) THEN sessions[k].conn ELSE NoConn

\* try_insert, first half: take the counter's entry (the RefMut is held until
\* the function returns), first cap check
TryInsertStart(c) ==
    /\ pc[c] = "ti_start"
    /\ tc_guard = NoConn
    /\ LET max_total == cfg.limits.max_sessions_total
           current == GetOr(tenant_counts, Tenant, 0)
       IN /\ tenant_counts' = Put(tenant_counts, Tenant, current)
          /\ IF CapReached(current, max_total)
             THEN /\ pc' = [pc EXCEPT ![c] = "gone"]
                  /\ why' = [why EXCEPT ![c] = "ResourceExhausted"]
                  /\ tc_guard' = NoConn
             ELSE /\ pc' = [pc EXCEPT ![c] = "ti_add"]
                  /\ why' = why
                  /\ tc_guard' = c
          /\ loc' = [loc EXCEPT ![c].ti_before = current]
    /\ UNCHANGED <<cfg, mainvars, sid, next_sid, chanvars, nframes, active_room, polvars,
                   sessions, user_index, seq, presvars, ws_active_sessions, evicted>>

\* AtomicU64 and usize arithmetic wraps; the 64 bits are scaled down to AtomicBits
AtomicModulus == 2 ^ AtomicBits

fetch_add_lost(n) == n

\* counter.fetch_add(1)
fetch_add(n) == (n + 1) % AtomicModulus

\* counter.fetch_sub(1)
fetch_sub(n) == (n - 1) % AtomicModulus

TryInsertAdd(c) ==
    /\ pc[c] = "ti_add"
    /\ tenant_counts' = [tenant_counts EXCEPT ![Tenant] = fetch_add(@)]
    /\ pc' = [pc EXCEPT ![c] = "ti_check"]
    /\ UNCHANGED <<cfg, mainvars, sid, loc, why, next_sid, chanvars, nframes, active_room, polvars,
                   sessions, user_index, seq, tc_guard, presvars, ws_active_sessions, evicted>>

\* the second check; on overshoot the increment is reverted
TryInsertCheck(c) ==
    /\ pc[c] = "ti_check"
    /\ LET max_total == cfg.limits.max_sessions_total
       IN IF max_total > 0 /\ tenant_counts[Tenant] > max_total
          THEN /\ tenant_counts' = [tenant_counts EXCEPT ![Tenant] = fetch_sub(@)]
               /\ pc' = [pc EXCEPT ![c] = "gone"]
               /\ why' = [why EXCEPT ![c] = "ResourceExhausted"]
               /\ tc_guard' = NoConn
          ELSE /\ pc' = [pc EXCEPT ![c] = "ti_index"]
               /\ UNCHANGED <<tenant_counts, why, tc_guard>>
    /\ UNCHANGED <<cfg, mainvars, sid, loc, next_sid, chanvars, nframes, active_room, polvars,
                   sessions, user_index, seq, presvars, ws_active_sessions, evicted>>

\* user_index.entry(user_key).or_insert_with(DashSet::new).insert(session_key)
TryInsertIndex(c) ==
    /\ pc[c] = "ti_index"
    /\ user_index' = Put(user_index, UK, GetOr(user_index, UK, {}) \cup {MyKey(c)})
    /\ pc' = [pc EXCEPT ![c] = "ti_sessions"]
    /\ UNCHANGED <<cfg, mainvars, sid, loc, why, next_sid, chanvars, nframes, active_room, polvars,
                   sessions, tenant_counts, seq, tc_guard, presvars, ws_active_sessions, evicted>>

SessionEntry(c, created_seq, t) == [conn |-> c, created_seq |-> created_seq, tenant_id |-> t]

\* created_seq = seq.fetch_add(1); sessions.insert(..); return Ok (drops the RefMut)
TryInsertSessions(c) ==
    /\ pc[c] = "ti_sessions"
    /\ seq' = fetch_add(seq)
    /\ sessions' = Put(sessions, MyKey(c), SessionEntry(c, seq, Tenant))
    /\ tc_guard' = NoConn
    /\ pc' = [pc EXCEPT ![c] = "admitted"]
    /\ tally' = [tally EXCEPT !.inserted = @ + 1]
    /\ UNCHANGED <<cfg, othervars, sid, loc, why, next_sid, chanvars, nframes, active_room,
                   polvars, user_index, tenant_counts, presvars, ws_active_sessions, evicted>>

\* remove_session, user index part: set.remove(session_key); set.is_empty()
RemoveIndex(c) ==
    /\ pc[c] = "rm_index"
    /\ IF Has(user_index, UK)
       THEN LET set == user_index[UK] \ {loc[c].rm_key}
            IN /\ user_index' = [user_index EXCEPT ![UK] = set]
               /\ pc' = [pc EXCEPT ![c] = IF set = {} THEN "rm_index_drop" ELSE "rm_sessions"]
       ELSE /\ user_index' = user_index
            /\ pc' = [pc EXCEPT ![c] = "rm_sessions"]
    /\ UNCHANGED <<cfg, mainvars, sid, loc, why, next_sid, chanvars, nframes, active_room, polvars,
                   sessions, tenant_counts, seq, tc_guard, presvars, ws_active_sessions, evicted>>

\* drop(set); self.user_index.remove(user_key)
RemoveIndexDrop(c) ==
    /\ pc[c] = "rm_index_drop"
    /\ user_index' = Del(user_index, UK)
    /\ pc' = [pc EXCEPT ![c] = "rm_sessions"]
    /\ UNCHANGED <<cfg, mainvars, sid, loc, why, next_sid, chanvars, nframes, active_room, polvars,
                   sessions, tenant_counts, seq, tc_guard, presvars, ws_active_sessions, evicted>>

\* where remove_session returns to when it yields None
RemoveNone(ret) == IF ret = "evict" THEN "ti_start" ELSE "cs_start"

\* self.sessions.remove(session_key)
RemoveSessions(c) ==
    /\ pc[c] = "rm_sessions"
    /\ LET k == loc[c].rm_key
       IN IF Has(sessions, k)
          THEN /\ sessions' = Del(sessions, k)
               /\ loc' = [loc EXCEPT ![c].vconn = sessions[k].conn]
               /\ pc' = [pc EXCEPT ![c] = "rm_counter"]
               /\ evicted' = IF loc[c].rm_ret = "evict"
                             THEN evicted \cup {sessions[k].conn} ELSE evicted
               /\ tally' = [tally EXCEPT !.returned = @ + 1]
          ELSE /\ sessions' = sessions
               /\ evicted' = evicted
               /\ tally' = tally
               /\ loc' = [loc EXCEPT ![c].vconn = NoConn, ![c].rm_key = NoKey,
                                     ![c].rm_ret = "", ![c].victim = NoKey,
                                     ![c].cs_key = IF loc[c].rm_ret = "drop" THEN k ELSE NoKey,
                                     ![c].cs_ret = IF loc[c].rm_ret = "drop" THEN "drop" ELSE ""]
               /\ pc' = [pc EXCEPT ![c] = RemoveNone(loc[c].rm_ret)]
    /\ UNCHANGED <<cfg, othervars, sid, why, next_sid, chanvars, nframes, active_room, polvars,
                   user_index, tenant_counts, seq, tc_guard, presvars, ws_active_sessions>>

\* tenant_counts.get(&entry.tenant_id): counter.fetch_sub(1); Some(entry.conn)
RemoveCounter(c) ==
    /\ pc[c] = "rm_counter"
    /\ tc_guard = NoConn
    /\ tenant_counts' = IF Has(tenant_counts, Tenant)
                        THEN [tenant_counts EXCEPT ![Tenant] = fetch_sub(@)]
                        ELSE tenant_counts
    /\ IF loc[c].rm_ret = "evict"
       THEN /\ pc' = [pc EXCEPT ![c] = "kick_kicked"]
            /\ loc' = [loc EXCEPT ![c].rm_key = NoKey, ![c].rm_ret = ""]
       ELSE /\ pc' = [pc EXCEPT ![c] = "cs_start"]
            /\ loc' = [loc EXCEPT ![c].rm_key = NoKey, ![c].rm_ret = "", ![c].vconn = NoConn,
                                  ![c].cs_key = loc[c].rm_key, ![c].cs_ret = "drop"]
    /\ UNCHANGED <<cfg, mainvars, sid, why, next_sid, chanvars, nframes, active_room, polvars,
                   sessions, user_index, seq, tc_guard, presvars, ws_active_sessions, evicted>>

\* evict_oldest: let set = self.user_index.get(user_key)?; snapshot of its keys
EvictKeys(c) ==
    /\ pc[c] = "ev_keys"
    /\ IF Has(user_index, UK)
       THEN /\ loc' = [loc EXCEPT ![c].keys = user_index[UK], ![c].victim = NoKey,
                                  ![c].vseq = 0]
            /\ pc' = [pc EXCEPT ![c] = "ev_scan"]
       ELSE /\ loc' = loc
            /\ pc' = [pc EXCEPT ![c] = "ti_start"]
    /\ UNCHANGED <<cfg, mainvars, sid, why, next_sid, chanvars, nframes, active_room, polvars,
                   regvars, presvars, ws_active_sessions>>

\* does entry e replace the current candidate (victim_seq starts at u64::MAX)
Older(e, victim, vseq) == victim = NoKey \/ e.created_seq < vseq

\* one turn of `for k in &keys`: sessions.get(k), keep the smallest created_seq
EvictScan(c, k) ==
    /\ pc[c] = "ev_scan"
    /\ k \in loc[c].keys
    /\ loc' = IF Has(sessions, k) /\ Older(sessions[k], loc[c].victim, loc[c].vseq)
              THEN [loc EXCEPT ![c].keys = @ \ {k}, ![c].victim = k,
                               ![c].vseq = sessions[k].created_seq]
              ELSE [loc EXCEPT ![c].keys = @ \ {k}]
    /\ UNCHANGED <<cfg, mainvars, pc, sid, why, next_sid, chanvars, nframes, active_room, polvars,
                   regvars, presvars, ws_active_sessions>>

\* let victim_key = victim_key?; self.remove_session(user_key, &victim_key)
EvictPick(c) ==
    /\ pc[c] = "ev_scan"
    /\ loc[c].keys = {}
    /\ IF loc[c].victim = NoKey
       THEN /\ pc' = [pc EXCEPT ![c] = "ti_start"]
            /\ loc' = [loc EXCEPT ![c].vseq = 0]
       ELSE /\ pc' = [pc EXCEPT ![c] = "rm_index"]
            /\ loc' = [loc EXCEPT ![c].vseq = 0, ![c].rm_key = loc[c].victim,
                                  ![c].rm_ret = "evict"]
    /\ UNCHANGED <<cfg, mainvars, sid, why, next_sid, chanvars, nframes, active_room, polvars,
                   regvars, presvars, ws_active_sessions>>

\* ---------------------------------------------------------------- presence
\* what `break` (or a return past the guard) starts: SessionCleanup::drop calls
\* remove_session(user_key, session_key)
DropLoc(c) == [loc EXCEPT ![c] = [LocInit EXCEPT !.rm_key = MyKey(c), !.rm_ret = "drop"]]

ref_key(uk, rk) == <<uk, rk>>

sessions_in(rk) == GetOr(room_to_sessions, rk, {})

\* set.insert(x) on map.entry(k).or_default()
EntryInsert(m, k, x) == Put(m, k, GetOr(m, k, {}) \cup {x})

\* where leave returns to
LeaveRet(ret) == IF ret = "cs" THEN "cs_loop" ELSE "left_reply"

\* leave 1: room_to_sessions.get(room_key): set.remove(session_key); set.is_empty()
LeaveRouting(c) ==
    /\ pc[c] = "lv_routing"
    /\ LET rk == loc[c].lv_room
       IN IF Has(room_to_sessions, rk)
          THEN LET set == room_to_sessions[rk] \ {loc[c].lv_key}
               IN /\ room_to_sessions' = [room_to_sessions EXCEPT ![rk] = set]
                  /\ loc' = [loc EXCEPT ![c].room_empty = (set = {})]
                  /\ pc' = [pc EXCEPT ![c] = IF set = {} THEN "lv_routing_drop" ELSE "lv_s2r"]
          ELSE /\ room_to_sessions' = room_to_sessions
               /\ loc' = [loc EXCEPT ![c].room_empty = FALSE]
               /\ pc' = [pc EXCEPT ![c] = "lv_s2r"]
    /\ UNCHANGED <<cfg, mainvars, sid, why, next_sid, chanvars, nframes, active_room, polvars, regvars,
                   session_to_rooms, room_to_users, user_to_rooms, user_room_refs,
                   tenant_room_counts, refs_guard, ws_active_sessions>>

\* if room_empty { self.room_to_sessions.remove(room_key); }
LeaveRoutingDrop(c) ==
    /\ pc[c] = "lv_routing_drop"
    /\ room_to_sessions' = Del(room_to_sessions, loc[c].lv_room)
    /\ pc' = [pc EXCEPT ![c] = "lv_s2r"]
    /\ UNCHANGED <<cfg, mainvars, sid, loc, why, next_sid, chanvars, nframes, active_room, polvars,
                   regvars, session_to_rooms, room_to_users, user_to_rooms, user_room_refs,
                   tenant_room_counts, refs_guard, ws_active_sessions>>

\* session_to_rooms.get(session_key): set.remove(room_key); set.is_empty()
LeaveSessionRooms(c) ==
    /\ pc[c] = "lv_s2r"
    /\ LET k == loc[c].lv_key
       IN IF Has(session_to_rooms, k)
          THEN LET set == session_to_rooms[k] \ {loc[c].lv_room}
               IN /\ session_to_rooms' = [session_to_rooms EXCEPT ![k] = set]
                  /\ pc' = [pc EXCEPT ![c] = IF set = {} THEN "lv_s2r_drop" ELSE "lv_refs"]
          ELSE /\ session_to_rooms' = session_to_rooms
               /\ pc' = [pc EXCEPT ![c] = "lv_refs"]
    /\ UNCHANGED <<cfg, mainvars, sid, loc, why, next_sid, chanvars, nframes, active_room, polvars,
                   regvars, room_to_sessions, room_to_users, user_to_rooms, user_room_refs,
                   tenant_room_counts, refs_guard, ws_active_sessions>>

\* drop(set); self.session_to_rooms.remove(session_key)
LeaveSessionRoomsDrop(c) ==
    /\ pc[c] = "lv_s2r_drop"
    /\ session_to_rooms' = Del(session_to_rooms, loc[c].lv_key)
    /\ pc' = [pc EXCEPT ![c] = "lv_refs"]
    /\ UNCHANGED <<cfg, mainvars, sid, loc, why, next_sid, chanvars, nframes, active_room, polvars,
                   regvars, room_to_sessions, room_to_users, user_to_rooms, user_room_refs,
                   tenant_room_counts, refs_guard, ws_active_sessions>>

\* a panic inside leave.  Called from the select loop, the task unwinds through
\* SessionCleanup::drop; called from cleanup_session, the task ends where it is,
\* and a panic while already unwinding aborts the process
LeavePanic(c) ==
    IF loc[c].lv_ret = "frame"
    THEN /\ pc' = [pc EXCEPT ![c] = "rm_index"]
         /\ loc' = DropLoc(c)
         /\ why' = [why EXCEPT ![c] = "panic"]
         /\ queue' = queue
    ELSE IF why[c] = "panic"
    THEN /\ pc' = [d \in Conns |-> "gone"]
         /\ why' = [why EXCEPT ![c] = "abort"]
         /\ UNCHANGED <<loc, queue>>
    ELSE /\ pc' = [pc EXCEPT ![c] = "gone"]
         /\ why' = [why EXCEPT ![c] = "panic"]
         /\ loc' = [loc EXCEPT ![c] = LocInit]
         /\ queue' = [queue EXCEPT ![c] = <<>>]

\* user_room_refs.get_mut(&ref_key): *refs -= 1; remove_user_mapping = (*refs == 0).
\* On an entry that is 0 the usize subtraction wraps (release build) or panics
\* (debug build, overflow checks on)
LeaveRefs(c) ==
    /\ pc[c] = "lv_refs"
    /\ LET rf == ref_key(UK, loc[c].lv_room)
       IN /\ rf \notin refs_guard
          /\ IF Has(user_room_refs, rf)
             THEN IF user_room_refs[rf] = 0
                  THEN \/ /\ user_room_refs' = [user_room_refs EXCEPT ![rf] = AtomicModulus - 1]
                          /\ pc' = [pc EXCEPT ![c] = "lv_counter"]
                          /\ UNCHANGED <<loc, why, queue>>
                       \/ /\ user_room_refs' = user_room_refs
                          /\ LeavePanic(c)
                  ELSE /\ user_room_refs' = [user_room_refs EXCEPT ![rf] = @ - 1]
                       /\ pc' = [pc EXCEPT ![c] = IF user_room_refs[rf] - 1 = 0
                                                  THEN "lv_refs_drop" ELSE "lv_counter"]
                       /\ UNCHANGED <<loc, why, queue>>
             ELSE /\ user_room_refs' = user_room_refs
                  /\ pc' = [pc EXCEPT ![c] = "lv_counter"]
                  /\ UNCHANGED <<loc, why, queue>>
    /\ UNCHANGED <<cfg, mainvars, sid, next_sid, enq, sock, nframes, active_room, polvars,
                   regvars, room_to_sessions, session_to_rooms, room_to_users,
                   user_to_rooms, tenant_room_counts, refs_guard, ws_active_sessions>>

\* the entry left in the map at 0
LeaveRefsKeep(c) ==
    /\ pc[c] = "lv_refs_drop"
    /\ ref_key(UK, loc[c].lv_room) \notin refs_guard
    /\ pc' = [pc EXCEPT ![c] = "lv_u2r"]
    /\ UNCHANGED <<cfg, mainvars, sid, loc, why, next_sid, chanvars, nframes, active_room, polvars,
                   regvars, presvars, ws_active_sessions>>

\* self.user_room_refs.remove(&ref_key)
LeaveRefsDrop(c) ==
    /\ pc[c] = "lv_refs_drop"
    /\ ref_key(UK, loc[c].lv_room) \notin refs_guard
    /\ user_room_refs' = Del(user_room_refs, ref_key(UK, loc[c].lv_room))
    /\ pc' = [pc EXCEPT ![c] = "lv_u2r"]
    /\ UNCHANGED <<cfg, mainvars, sid, loc, why, next_sid, chanvars, nframes, active_room, polvars,
                   regvars, room_to_sessions, session_to_rooms, room_to_users,
                   user_to_rooms, tenant_room_counts, refs_guard, ws_active_sessions>>

\* user_to_rooms.get(user_key): set.remove(room_key); set.is_empty()
LeaveUserRooms(c) ==
    /\ pc[c] = "lv_u2r"
    /\ IF Has(user_to_rooms, UK)
       THEN LET set == user_to_rooms[UK] \ {loc[c].lv_room}
            IN /\ user_to_rooms' = [user_to_rooms EXCEPT ![UK] = set]
               /\ pc' = [pc EXCEPT ![c] = IF set = {} THEN "lv_u2r_drop" ELSE "lv_r2u"]
       ELSE /\ user_to_rooms' = user_to_rooms
            /\ pc' = [pc EXCEPT ![c] = "lv_r2u"]
    /\ UNCHANGED <<cfg, mainvars, sid, loc, why, next_sid, chanvars, nframes, active_room, polvars,
                   regvars, room_to_sessions, session_to_rooms, room_to_users,
                   user_room_refs, tenant_room_counts, refs_guard, ws_active_sessions>>

\* drop(set); self.user_to_rooms.remove(user_key)
LeaveUserRoomsDrop(c) ==
    /\ pc[c] = "lv_u2r_drop"
    /\ user_to_rooms' = Del(user_to_rooms, UK)
    /\ pc' = [pc EXCEPT ![c] = "lv_r2u"]
    /\ UNCHANGED <<cfg, mainvars, sid, loc, why, next_sid, chanvars, nframes, active_room, polvars,
                   regvars, room_to_sessions, session_to_rooms, room_to_users,
                   user_room_refs, tenant_room_counts, refs_guard, ws_active_sessions>>

\* room_to_users.get(room_key): set.remove(user_key); set.is_empty()
LeaveRoomUsers(c) ==
    /\ pc[c] = "lv_r2u"
    /\ LET rk == loc[c].lv_room
       IN IF Has(room_to_users, rk)
          THEN LET set == room_to_users[rk] \ {UK}
               IN /\ room_to_users' = [room_to_users EXCEPT ![rk] = set]
                  /\ pc' = [pc EXCEPT ![c] = IF set = {} THEN "lv_r2u_drop" ELSE "lv_counter"]
          ELSE /\ room_to_users' = room_to_users
               /\ pc' = [pc EXCEPT ![c] = "lv_counter"]
    /\ UNCHANGED <<cfg, mainvars, sid, loc, why, next_sid, chanvars, nframes, active_room, polvars,
                   regvars, room_to_sessions, session_to_rooms, user_to_rooms,
                   user_room_refs, tenant_room_counts, refs_guard, ws_active_sessions>>

\* drop(set); self.room_to_users.remove(room_key)
LeaveRoomUsersDrop(c) ==
    /\ pc[c] = "lv_r2u_drop"
    /\ room_to_users' = Del(room_to_users, loc[c].lv_room)
    /\ pc' = [pc EXCEPT ![c] = "lv_counter"]
    /\ UNCHANGED <<cfg, mainvars, sid, loc, why, next_sid, chanvars, nframes, active_room, polvars,
                   regvars, room_to_sessions, session_to_rooms, user_to_rooms,
                   user_room_refs, tenant_room_counts, refs_guard, ws_active_sessions>>

\* if room_empty { tenant_room_counts.get(tenant_id): counter.fetch_sub(1) }; return
LeaveCounter(c) ==
    /\ pc[c] = "lv_counter"
    /\ tenant_room_counts' =
          IF loc[c].room_empty /\ Has(tenant_room_counts, Tenant)
          THEN [tenant_room_counts EXCEPT ![Tenant] = fetch_sub(@)]
          ELSE tenant_room_counts
    /\ pc' = [pc EXCEPT ![c] = LeaveRet(loc[c].lv_ret)]
    /\ loc' = [loc EXCEPT ![c].lv_room = NoKey, ![c].lv_key = NoKey, ![c].lv_ret = "",
                          ![c].room_empty = FALSE]
    /\ UNCHANGED <<cfg, mainvars, sid, why, next_sid, chanvars, nframes, active_room, polvars,
                   regvars, room_to_sessions, session_to_rooms, room_to_users,
                   user_to_rooms, user_room_refs, refs_guard, ws_active_sessions>>

\* cleanup_session: self.session_to_rooms.remove(session_key)
CleanupStart(c) ==
    /\ pc[c] = "cs_start"
    /\ LET k == loc[c].cs_key
       IN /\ session_to_rooms' = Del(session_to_rooms, k)
          /\ loc' = [loc EXCEPT ![c].cs_rooms = GetOr(session_to_rooms, k, {})]
    /\ pc' = [pc EXCEPT ![c] = "cs_loop"]
    /\ UNCHANGED <<cfg, mainvars, sid, why, next_sid, chanvars, nframes, active_room, polvars,
                   regvars, room_to_sessions, room_to_users, user_to_rooms,
                   user_room_refs, tenant_room_counts, refs_guard, ws_active_sessions>>

\* one turn of `for r in rooms.iter()`: self.leave(tenant_id, room_key, ..)
CleanupLeave(c, rk) ==
    /\ pc[c] = "cs_loop"
    /\ rk \in loc[c].cs_rooms
    /\ loc' = [loc EXCEPT ![c].cs_rooms = @ \ {rk}, ![c].lv_room = rk,
                          ![c].lv_key = loc[c].cs_key, ![c].lv_ret = "cs"]
    /\ pc' = [pc EXCEPT ![c] = "lv_routing"]
    /\ UNCHANGED <<cfg, mainvars, sid, why, next_sid, chanvars, nframes, active_room, polvars,
                   regvars, presvars, ws_active_sessions>>

\* cleanup_session returns: to the evictor's gauge update, or to the end of Drop
CleanupDone(c) ==
    /\ pc[c] = "cs_loop"
    /\ loc[c].cs_rooms = {}
    /\ pc' = [pc EXCEPT ![c] = IF loc[c].cs_ret = "kick" THEN "kick_gauge" ELSE "drop_gauge"]
    /\ loc' = [loc EXCEPT ![c].cs_key = NoKey, ![c].cs_ret = ""]
    /\ UNCHANGED <<cfg, mainvars, sid, why, next_sid, chanvars, nframes, active_room, polvars,
                   regvars, presvars, ws_active_sessions>>

\* the limits compared with > in place of >=
JoinLimitLax(rk, uk, limits) ==
    \/ /\ limits.max_users_per_room > 0
       /\ Has(room_to_users, rk)
       /\ Cardinality(room_to_users[rk]) > limits.max_users_per_room
       /\ uk \notin room_to_users[rk]
    \/ /\ limits.max_rooms_per_user > 0
       /\ Has(user_to_rooms, uk)
       /\ Cardinality(user_to_rooms[uk]) > limits.max_rooms_per_user
       /\ rk \notin user_to_rooms[uk]

\* try_join 1 and 2: room capacity and the user's room limit
JoinLimitReached(rk, uk, limits) ==
    \/ /\ limits.max_users_per_room > 0
       /\ Has(room_to_users, rk)
       /\ Cardinality(room_to_users[rk]) >= limits.max_users_per_room
       /\ uk \notin room_to_users[rk]
    \/ /\ limits.max_rooms_per_user > 0
       /\ Has(user_to_rooms, uk)
       /\ Cardinality(user_to_rooms[uk]) >= limits.max_rooms_per_user
       /\ rk \notin user_to_rooms[uk]

\* the text of the error try_join 1 or 2 returns
JoinLimitText(rk, uk, limits) ==
    IF /\ limits.max_users_per_room > 0
       /\ Has(room_to_users, rk)
       /\ Cardinality(room_to_users[rk]) >= limits.max_users_per_room
       /\ uk \notin room_to_users[rk]
    THEN "room user limit reached"
    ELSE "user room limit reached"

TryJoinLimits(c) ==
    /\ pc[c] = "tj_limits"
    /\ LET rk == room_key(Tenant, loc[c].tj_room)
       IN IF JoinLimitReached(rk, UK, cfg.limits)
          THEN /\ pc' = [pc EXCEPT ![c] = "join_err"]
               /\ loc' = [loc EXCEPT ![c].tj_err = JoinLimitText(rk, UK, cfg.limits)]
          ELSE /\ pc' = [pc EXCEPT ![c] = "tj_new"]
               /\ UNCHANGED loc
    /\ UNCHANGED <<cfg, mainvars, sid, why, next_sid, chanvars, nframes, active_room, polvars,
                   regvars, presvars, ws_active_sessions>>

\* let is_new_room = !self.room_to_sessions.contains_key(room_key)
TryJoinNew(c) ==
    /\ pc[c] = "tj_new"
    /\ loc' = [loc EXCEPT ![c].is_new_room =
                  ~Has(room_to_sessions, room_key(Tenant, loc[c].tj_room))]
    /\ pc' = [pc EXCEPT ![c] = "tj_counter"]
    /\ UNCHANGED <<cfg, mainvars, sid, why, next_sid, chanvars, nframes, active_room, polvars,
                   regvars, presvars, ws_active_sessions>>

\* the counter incremented before the limit is checked, and not restored
TryJoinCounterEager(c) ==
    /\ pc[c] = "tj_counter"
    /\ LET n == GetOr(tenant_room_counts, Tenant, 0)
           max == cfg.limits.max_rooms_total
       IN /\ tenant_room_counts' = IF loc[c].is_new_room
                                   THEN Put(tenant_room_counts, Tenant, fetch_add(n))
                                   ELSE tenant_room_counts
          /\ pc' = [pc EXCEPT ![c] = IF loc[c].is_new_room /\ max > 0 /\ n >= max
                                     THEN "join_err" ELSE "tj_r2s"]
          /\ loc' = [loc EXCEPT ![c].is_new_room = FALSE,
                                ![c].tj_err = IF loc[c].is_new_room /\ max > 0 /\ n >= max
                                              THEN "tenant room limit reached" ELSE ""]
    /\ UNCHANGED <<cfg, mainvars, sid, why, next_sid, chanvars, nframes, active_room, polvars,
                   regvars, room_to_sessions, session_to_rooms, room_to_users,
                   user_to_rooms, user_room_refs, refs_guard, ws_active_sessions>>

\* try_join 3: the tenant room counter, checked and incremented under its entry
TryJoinCounter(c) ==
    /\ pc[c] = "tj_counter"
    /\ LET n == GetOr(tenant_room_counts, Tenant, 0)
           max == cfg.limits.max_rooms_total
       IN IF loc[c].is_new_room /\ max > 0 /\ n >= max
          THEN /\ tenant_room_counts' = Put(tenant_room_counts, Tenant, n)
               /\ pc' = [pc EXCEPT ![c] = "join_err"]
               /\ loc' = [loc EXCEPT ![c].is_new_room = FALSE,
                                     ![c].tj_err = "tenant room limit reached"]
          ELSE /\ tenant_room_counts' = IF loc[c].is_new_room
                                        THEN Put(tenant_room_counts, Tenant, fetch_add(n))
                                        ELSE tenant_room_counts
               /\ pc' = [pc EXCEPT ![c] = "tj_r2s"]
               /\ loc' = [loc EXCEPT ![c].is_new_room = FALSE]
    /\ UNCHANGED <<cfg, mainvars, sid, why, next_sid, chanvars, nframes, active_room, polvars,
                   regvars, room_to_sessions, session_to_rooms, room_to_users,
                   user_to_rooms, user_room_refs, refs_guard, ws_active_sessions>>

\* room_to_sessions.entry(room_key).or_default().insert(session_key)
TryJoinRouting(c) ==
    /\ pc[c] = "tj_r2s"
    /\ room_to_sessions' = EntryInsert(room_to_sessions, room_key(Tenant, loc[c].tj_room), MyKey(c))
    /\ pc' = [pc EXCEPT ![c] = "tj_s2r"]
    /\ UNCHANGED <<cfg, mainvars, sid, loc, why, next_sid, chanvars, nframes, active_room, polvars,
                   regvars, session_to_rooms, room_to_users, user_to_rooms, user_room_refs,
                   tenant_room_counts, refs_guard, ws_active_sessions>>

\* session_to_rooms.entry(session_key).or_default().insert(room_key)
TryJoinSessionRooms(c) ==
    /\ pc[c] = "tj_s2r"
    /\ session_to_rooms' = EntryInsert(session_to_rooms, MyKey(c), room_key(Tenant, loc[c].tj_room))
    /\ pc' = [pc EXCEPT ![c] = "tj_refs"]
    /\ UNCHANGED <<cfg, mainvars, sid, loc, why, next_sid, chanvars, nframes, active_room, polvars,
                   regvars, room_to_sessions, room_to_users, user_to_rooms, user_room_refs,
                   tenant_room_counts, refs_guard, ws_active_sessions>>

\* let mut refs = user_room_refs.entry(ref_key).or_insert(0); *refs += 1;
\* the RefMut lives to the end of try_join
TryJoinRefs(c) ==
    /\ pc[c] = "tj_refs"
    /\ LET rf == ref_key(UK, room_key(Tenant, loc[c].tj_room))
           n == (GetOr(user_room_refs, rf, 0) + 1) % AtomicModulus
       IN /\ rf \notin refs_guard
          /\ user_room_refs' = Put(user_room_refs, rf, n)
          /\ refs_guard' = IF n = 1 THEN refs_guard \cup {rf} ELSE refs_guard
          /\ pc' = [pc EXCEPT ![c] = IF n = 1 THEN "tj_r2u" ELSE "joined_reply"]
    /\ UNCHANGED <<cfg, mainvars, sid, loc, why, next_sid, chanvars, nframes, active_room, polvars,
                   regvars, room_to_sessions, session_to_rooms, room_to_users,
                   user_to_rooms, tenant_room_counts, ws_active_sessions>>

\* if *refs == 1: room_to_users.entry(room_key).or_default().insert(user_key)
TryJoinRoomUsers(c) ==
    /\ pc[c] = "tj_r2u"
    /\ room_to_users' = EntryInsert(room_to_users, room_key(Tenant, loc[c].tj_room), UK)
    /\ pc' = [pc EXCEPT ![c] = "tj_u2r"]
    /\ UNCHANGED <<cfg, mainvars, sid, loc, why, next_sid, chanvars, nframes, active_room, polvars,
                   regvars, room_to_sessions, session_to_rooms, user_to_rooms,
                   user_room_refs, tenant_room_counts, refs_guard, ws_active_sessions>>

\* user_to_rooms.entry(user_key).or_default().insert(room_key); Ok(()) drops refs
TryJoinUserRooms(c) ==
    /\ pc[c] = "tj_u2r"
    /\ user_to_rooms' = EntryInsert(user_to_rooms, UK, room_key(Tenant, loc[c].tj_room))
    /\ refs_guard' = refs_guard \ {ref_key(UK, room_key(Tenant, loc[c].tj_room))}
    /\ pc' = [pc EXCEPT ![c] = "joined_reply"]
    /\ UNCHANGED <<cfg, mainvars, sid, loc, why, next_sid, chanvars, nframes, active_room, polvars,
                   regvars, room_to_sessions, session_to_rooms, room_to_users,
                   user_room_refs, tenant_room_counts, ws_active_sessions>>

\* ------------------------------------------------------------- ws_upgrade
\* app.is_draining(): a load of the draining flag
is_draining == draining

\* ------------------------------------------------- handshake: ws_upgrade
\* time passes
Tick(d) ==
    /\ handshake.now + d <= MaxClock
    /\ handshake' = [handshake EXCEPT !.now = @ + d]
    /\ UNCHANGED <<cfg, pc, sid, loc, why, next_sid, chanvars, nframes, active_room, polvars,
                   regvars, presvars, ws_active_sessions, draining, shutdown, prior,
                   drop_count, hot, bucket, tally, call,
                   send_fail_count>>

\* check, 1) Global: the global bucket is charged under its lock
HandshakeGlobal(c, ip) ==
    /\ pc[c] = "new"
    /\ handshake.cfg.enabled
    /\ LET t == try_take(handshake.global, 1, handshake.now)
           r == [NoResponse EXCEPT !.ip = ip, !.turn = handshake.turns + 1,
                                   !.before = LeakyRefill(handshake.global, handshake.now).tokens]
       IN IF t.ok
          THEN /\ handshake' = [handshake EXCEPT !.global = t.b, !.turns = @ + 1,
                                                 !.resp[c] = r]
               /\ pc' = [pc EXCEPT ![c] = "hs_ip"]
               /\ why' = why
          ELSE /\ handshake' = [handshake EXCEPT !.global = t.b, !.turns = @ + 1,
                                                 !.resp[c] = TooManyRequests(r, t.retry, "global")]
               /\ pc' = [pc EXCEPT ![c] = "gone"]
               /\ why' = [why EXCEPT ![c] = "rate_limit"]
    /\ UNCHANGED <<cfg, sid, loc, next_sid, chanvars, nframes, active_room, polvars,
                   regvars, presvars, ws_active_sessions, draining, shutdown, prior,
                   drop_count, hot, bucket, tally, call,
                   send_fail_count>>

\* check, 2) Per-IP: the address's bucket, created full on first sight, is charged;
\* after an Ok the lazy cleanup may drop any entries when the map is over
\* max_ip_entries
HandshakeIp(c, kept) ==
    /\ pc[c] = "hs_ip"
    /\ LET ip == handshake.resp[c].ip
           entry == IF Has(handshake.per_ip, ip) THEN handshake.per_ip[ip]
                    ELSE LeakyBucketNew(handshake.cfg.per_ip_burst, handshake.cfg.per_ip_rps,
                                        handshake.now)
           t == try_take(entry, 1, handshake.now)
           m == Put(handshake.per_ip, ip, t.b)
       IN IF t.ok
          THEN /\ kept \subseteq DOMAIN m
               /\ Cardinality(DOMAIN m) <= handshake.cfg.max_ip_entries => kept = DOMAIN m
               /\ handshake' = [handshake EXCEPT !.per_ip = [i \in kept |-> m[i]],
                                                 !.resp[c].at = handshake.now]
               /\ pc' = [pc EXCEPT ![c] = "hs_ok"]
               /\ why' = why
          ELSE /\ kept = DOMAIN m
               /\ handshake' = [handshake EXCEPT
                                   !.per_ip = m,
                                   !.resp[c] = TooManyRequests([@ EXCEPT !.at = handshake.now],
                                                               t.retry, "per_ip")]
               /\ pc' = [pc EXCEPT ![c] = "gone"]
               /\ why' = [why EXCEPT ![c] = "rate_limit"]
    /\ UNCHANGED <<cfg, sid, loc, next_sid, chanvars, nframes, active_room, polvars,
                   regvars, presvars, ws_active_sessions, draining, shutdown, prior,
                   drop_count, hot, bucket, tally, call,
                   send_fail_count>>

\* the draining and tenant capacity checks of ws_upgrade; a refused upgrade never
\* runs run_session
UpgradeChecks(c) ==
    /\ LET limit == cfg.limits.max_sessions_total
       IN IF is_draining
          THEN /\ pc' = [pc EXCEPT ![c] = "gone"]
               /\ why' = [why EXCEPT ![c] = "draining"]
          ELSE /\ limit > 0 => tc_guard = NoConn
               /\ IF limit > 0 /\ count_tenant_sessions(Tenant) >= limit
                  THEN /\ pc' = [pc EXCEPT ![c] = "gone"]
                       /\ why' = [why EXCEPT ![c] = "tenant_capacity"]
                  ELSE /\ pc' = [pc EXCEPT ![c] = "run"]
                       /\ why' = why
    /\ UNCHANGED <<cfg, draining, shutdown, prior, drop_count, hot, bucket, tally, call,
                   send_fail_count, sid, loc, next_sid, chanvars,
                   nframes, active_room, polvars, regvars, presvars, ws_active_sessions>>

\* ws_upgrade with the handshake defender disabled
Upgrade(c) ==
    /\ pc[c] = "new"
    /\ ~handshake.cfg.enabled
    /\ UpgradeChecks(c)
    /\ UNCHANGED handshake

\* ws_upgrade after check has answered Ok: the upgrade is answered 101
UpgradeAllowed(c) ==
    /\ pc[c] = "hs_ok"
    /\ UpgradeChecks(c)
    /\ handshake' = [handshake EXCEPT !.resp[c].status = IF pc'[c] = "run" THEN 101 ELSE 503]

\* ------------------------------------------------------------ run_session
\* q.sid.unwrap_or_else(gen_sid): a generated id is NEXT_SID in hex
SidOf(q_sid) == IF q_sid = NoSid THEN next_sid ELSE q_sid

\* run_session up to the session admission decision
RunSession(c, ticket, q_sid) ==
    /\ pc[c] = "run"
    /\ IF resolve_ticket(ticket) = "AuthFailed"
       THEN /\ pc' = [pc EXCEPT ![c] = "gone"]
            /\ why' = [why EXCEPT ![c] = "AuthFailed"]
            /\ UNCHANGED <<sid, next_sid, queue, enq, loc>>
       ELSE /\ sid' = [sid EXCEPT ![c] = SidOf(q_sid)]
            /\ next_sid' = IF q_sid = NoSid THEN next_sid + 1 ELSE next_sid
            /\ LET sp == cfg.policy.sessions
                   current_user_sessions == count_user_sessions(UK)
               IN IF current_user_sessions >= sp.max_sessions_per_user
                  THEN IF sp.on_exceed = "deny"
                       THEN /\ enq' = [enq EXCEPT ![c] =
                                         Append(@, sys_error_json("TOO_MANY_SESSIONS",
                                                                  "limit exceeded", c))]
                            /\ pc' = [pc EXCEPT ![c] = "gone"]
                            /\ why' = [why EXCEPT ![c] = "deny"]
                            /\ UNCHANGED <<queue, loc>>
                       ELSE /\ pc' = [pc EXCEPT ![c] = "ev_keys"]
                            /\ UNCHANGED <<why, queue, enq, loc>>
                  ELSE /\ pc' = [pc EXCEPT ![c] = "ti_start"]
                       /\ UNCHANGED <<why, queue, enq, loc>>
    /\ UNCHANGED <<cfg, mainvars, sock, nframes, active_room, polvars, regvars, presvars,
                   ws_active_sessions>>

\* an enqueue by try_send on d's queue
Enqueue(d, m) ==
    /\ queue' = try_send(queue, d, m)
    /\ enq' = IF try_send_ok(d) THEN [enq EXCEPT ![d] = Append(@, m)] ELSE enq

\* victim_conn.tx.try_send(sys.kicked)
KickKicked(c) ==
    /\ pc[c] = "kick_kicked"
    /\ Enqueue(loc[c].vconn, sys_kicked_json("max_sessions_exceeded", c))
    /\ pc' = [pc EXCEPT ![c] = "kick_close"]
    /\ UNCHANGED <<cfg, mainvars, sid, loc, why, next_sid, sock, nframes, active_room, polvars,
                   regvars, presvars, ws_active_sessions>>

\* victim_conn.tx.try_send(Close 1008); then presence.cleanup_session(victim)
KickClose(c) ==
    /\ pc[c] = "kick_close"
    /\ Enqueue(loc[c].vconn, CloseFrame(1008, "kicked"))
    /\ pc' = [pc EXCEPT ![c] = "cs_start"]
    /\ loc' = [loc EXCEPT ![c].vconn = NoConn, ![c].cs_key = loc[c].victim,
                          ![c].cs_ret = "kick", ![c].victim = NoKey]
    /\ UNCHANGED <<cfg, mainvars, sid, why, next_sid, sock, nframes, active_room, polvars,
                   regvars, presvars, ws_active_sessions>>

\* metrics.ws_active_sessions.dec after the eviction
KickGauge(c) ==
    /\ pc[c] = "kick_gauge"
    /\ ws_active_sessions' = ws_active_sessions - 1
    /\ pc' = [pc EXCEPT ![c] = "ti_start"]
    /\ UNCHANGED <<cfg, mainvars, sid, loc, why, next_sid, chanvars, nframes, active_room, polvars,
                   regvars, presvars>>

\* metrics.ws_active_sessions.inc; the SessionCleanup guard is armed
Admitted(c) ==
    /\ pc[c] = "admitted"
    /\ ws_active_sessions' = ws_active_sessions + 1
    /\ pc' = [pc EXCEPT ![c] = "authed"]
    /\ UNCHANGED <<cfg, mainvars, sid, loc, why, next_sid, chanvars, nframes, active_room, polvars,
                   regvars, presvars>>

\* out_tx.send(m).await on the task's own queue: it completes when the queue has
\* room; the task is the queue's only receiver, so on a full queue it never resumes
OwnSend(c, m, brk, reason) ==
    IF Len(queue[c]) < QueueCap
    THEN /\ queue' = [queue EXCEPT ![c] = Append(@, m)]
         /\ enq' = [enq EXCEPT ![c] = Append(@, m)]
         /\ pc' = [pc EXCEPT ![c] = IF brk THEN "rm_index" ELSE "steady"]
         /\ loc' = IF brk THEN DropLoc(c) ELSE [loc EXCEPT ![c] = LocInit]
         /\ why' = IF brk THEN [why EXCEPT ![c] = reason] ELSE why
    ELSE /\ pc' = [pc EXCEPT ![c] = "blocked"]
         /\ why' = [why EXCEPT ![c] = "send_on_full_queue"]
         /\ UNCHANGED <<queue, enq, loc>>

\* out_tx.send(sys.authed).await; conn_limiter = policy.new_connection_limiter()
SendAuthed(c) ==
    /\ pc[c] = "authed"
    /\ OwnSend(c, sys_authed_json(sid[c], c), FALSE, "")
    /\ conn_tokens' = [conn_tokens EXCEPT ![c] = TokenBucketNew(cfg.policy.rate_limit_burst)]
    /\ UNCHANGED <<cfg, mainvars, sid, next_sid, sock, nframes, active_room, tenant_tokens, last,
                   regvars, presvars, ws_active_sessions>>

\* select arm out_rx.recv(): the message is written to the socket in time
WriterSend(c) ==
    /\ pc[c] = "steady"
    /\ queue[c] # <<>>
    /\ sock' = [sock EXCEPT ![c] = Append(@, recv(queue[c]))]
    /\ queue' = [queue EXCEPT ![c] = Tail(@)]
    /\ UNCHANGED <<cfg, mainvars, pc, sid, loc, why, next_sid, enq, nframes, active_room, polvars,
                   regvars, presvars, ws_active_sessions>>

\* select arm out_rx.recv(): ws_tx.send does not finish within writer_send_timeout_ms
WriterTimeout(c) ==
    /\ pc[c] = "steady"
    /\ queue[c] # <<>>
    /\ queue' = [queue EXCEPT ![c] = Tail(@)]
    /\ pc' = [pc EXCEPT ![c] = "rm_index"]
    /\ loc' = DropLoc(c)
    /\ why' = [why EXCEPT ![c] = "writer_timeout"]
    /\ UNCHANGED <<cfg, mainvars, sid, next_sid, enq, sock, nframes, active_room, polvars,
                   regvars, presvars, ws_active_sessions>>

\* select arm ws_rx.next(): the stream ended, failed, or the peer sent Close
PeerClose(c) ==
    /\ pc[c] = "steady"
    /\ pc' = [pc EXCEPT ![c] = "rm_index"]
    /\ loc' = DropLoc(c)
    /\ why' = [why EXCEPT ![c] = "peer_close"]
    /\ UNCHANGED <<cfg, mainvars, sid, next_sid, chanvars, nframes, active_room, polvars,
                   regvars, presvars, ws_active_sessions>>

\* end of SessionCleanup::drop: the gauge; then run_session returns and the
\* channel is dropped with whatever it still holds
DropGauge(c) ==
    /\ pc[c] = "drop_gauge"
    /\ ws_active_sessions' = ws_active_sessions - 1
    /\ pc' = [pc EXCEPT ![c] = "gone"]
    /\ queue' = [queue EXCEPT ![c] = <<>>]
    /\ UNCHANGED <<cfg, mainvars, sid, loc, why, next_sid, enq, sock, nframes, active_room, polvars,
                   regvars, presvars>>

\* --------------------------------------------------------- inbound frames
\* websocket messages a client sends
TextMsg(ok, bytes_len, svc, msg_type, room) ==
    [kind |-> "text", ok |-> ok, bytes_len |-> bytes_len, svc |-> svc, msg_type |-> msg_type,
     room |-> room, svc_id |-> 0, opcode |-> 0]
BinMsg(ok, bytes_len, svc_id, opcode) ==
    [kind |-> "binary", ok |-> ok, bytes_len |-> bytes_len, svc |-> "", msg_type |-> "",
     room |-> NoRoom, svc_id |-> svc_id, opcode |-> opcode]
\* codec::decode: the Inbound variant, or Err for an invalid envelope or hot frame
decode(msg) ==
    CASE msg.kind = "text" -> IF msg.ok THEN "Text" ELSE "Err"
      [] msg.kind = "binary" -> IF msg.ok THEN "Hot" ELSE "Err"
      [] msg.kind = "ping" -> "Ping"
      [] msg.kind = "pong" -> "Pong"
      [] OTHER -> "Close"

\* PolicyDecision
Pass == [d |-> "Pass", code |-> "", msg |-> ""]
Drop == [d |-> "Drop", code |-> "", msg |-> ""]
Reject(code, msg) == [d |-> "Reject", code |-> code, msg |-> msg]
Close(code, msg) == [d |-> "Close", code |-> code, msg |-> msg]

has_tenant_limiter == cfg.policy.rate_limit_scope \in {"tenant", "both"}
new_connection_limiter == cfg.policy.rate_limit_scope \in {"connection", "both"}

is_ext_allowed(rules, svc, msg_type) ==
    \E r \in rules : r[1] = svc /\ (r[2] = "*" \/ r[2] = msg_type)

\* a HotRule; opcode None is the wildcard
HotRule(svc_id, wildcard, opcode) == [svc_id |-> svc_id, wildcard |-> wildcard, opcode |-> opcode]

is_hot_allowed(rules, svc_id, opcode) ==
    \E r \in rules : r.svc_id = svc_id /\ (r.wildcard \/ r.opcode = opcode)

check_len(bytes_len) ==
    IF bytes_len > cfg.limits.max_frame_bytes THEN Close("BAD_REQUEST", "frame too large") ELSE Pass

\* check_text; t is what tenant_limiter.allow() answers when it is asked.
\* [dec: the decision, asked: was the tenant limiter asked, checks: the checks made]
check_text(bytes_len, svc, msg_type, t) ==
    IF check_len(bytes_len) # Pass
    THEN [dec |-> check_len(bytes_len), asked |-> FALSE, checks |-> <<"len">>]
    ELSE IF has_tenant_limiter /\ ~t.ok
    THEN [dec |-> Drop, asked |-> TRUE, checks |-> <<"len", "rate">>]
    ELSE LET checks == IF has_tenant_limiter THEN <<"len", "rate", "allow">>
                       ELSE <<"len", "allow">>
         IN IF cfg.policy.ext_allowlist = {}
            THEN [dec |-> Reject("BAD_REQUEST", "ext_allowlist empty (strict deny)"),
                  asked |-> has_tenant_limiter, checks |-> checks]
            ELSE IF ~is_ext_allowed(cfg.policy.ext_allowlist, svc, msg_type)
            THEN [dec |-> Reject("BAD_REQUEST", "svc/type not allowed"),
                  asked |-> has_tenant_limiter, checks |-> checks]
            ELSE [dec |-> Pass, asked |-> has_tenant_limiter, checks |-> checks]

check_hot(bytes_len, svc_id, opcode, t) ==
    IF check_len(bytes_len) # Pass
    THEN [dec |-> check_len(bytes_len), asked |-> FALSE, checks |-> <<"len">>]
    ELSE IF has_tenant_limiter /\ ~t.ok
    THEN [dec |-> Drop, asked |-> TRUE, checks |-> <<"len", "rate">>]
    ELSE LET checks == IF has_tenant_limiter THEN <<"len", "rate", "allow">>
                       ELSE <<"len", "allow">>
         IN IF cfg.policy.hot_allowlist = {}
            THEN [dec |-> Drop, asked |-> has_tenant_limiter, checks |-> checks]
            ELSE IF ~is_hot_allowed(cfg.policy.hot_allowlist, svc_id, opcode)
            THEN [dec |-> Drop, asked |-> has_tenant_limiter, checks |-> checks]
            ELSE [dec |-> Pass, asked |-> has_tenant_limiter, checks |-> checks]

\* what the loop does with one inbound frame
\*   act: continue | reply | reply_break | break | join | leave | chat | echo
H(act, m, reason, checks, conn_asked, res) ==
    [act |-> act, m |-> m, reason |-> reason, checks |-> checks,
     conn_asked |-> conn_asked, tenant_asked |-> res.asked, dec |-> res.dec.d]

NotAsked == [asked |-> FALSE, dec |-> [d |-> "none"]]

\* Dispatcher::dispatch_text and ChatService::handle
DispatchText(c, msg, checks, res) ==
    IF msg.svc # "chat"
    THEN H("reply", sys_error_json("BAD_REQUEST", "bad request: unknown svc", c), "", checks,
           new_connection_limiter, res)
    ELSE IF msg.msg_type # "send"
    THEN H("reply", sys_error_json("BAD_REQUEST", "bad request: unknown chat type", c), "", checks,
           new_connection_limiter, res)
    ELSE IF msg.room = NoRoom
    THEN H("reply", sys_error_json("BAD_REQUEST", "bad request: chat.send requires room", c), "", checks,
           new_connection_limiter, res)
    ELSE H("chat", PingMsg, "", checks, new_connection_limiter, res)

\* the Inbound::Text arm; ca and ta are the answers of the two limiters
HandleText(c, msg, ca, ta) ==
    IF new_connection_limiter /\ ~ca.ok
    THEN H("continue", PingMsg, "", <<"rate">>, TRUE, NotAsked)
    ELSE LET res == check_text(msg.bytes_len, msg.svc, msg.msg_type, ta)
             checks == (IF new_connection_limiter THEN <<"rate">> ELSE <<>>) \o res.checks
             asked == new_connection_limiter
         IN CASE res.dec.d = "Drop" -> H("continue", PingMsg, "", checks, asked, res)
              [] res.dec.d = "Reject" ->
                    H("reply", sys_error_json(res.dec.code, res.dec.msg, c), "", checks, asked, res)
              [] res.dec.d = "Close" ->
                    H("reply_break", sys_error_json(res.dec.code, res.dec.msg, c), "policy_close",
                      checks, asked, res)
              [] OTHER ->
                    IF msg.svc = "room" /\ msg.msg_type = "join"
                    THEN H("join", PingMsg, "", Append(checks, "dispatch"), asked, res)
                    ELSE IF msg.svc = "room" /\ msg.msg_type = "leave"
                    THEN H("leave", PingMsg, "", Append(checks, "dispatch"), asked, res)
                    ELSE DispatchText(c, msg, Append(checks, "dispatch"), res)

\* a reply on the hot lane is sent only under hot_error_mode = sys_error
HotReply(c, code, msg, checks, res) ==
    IF cfg.policy.hot_error_mode = "sys_error"
    THEN H("reply", sys_error_json(code, msg, c), "", checks, FALSE, res)
    ELSE H("continue", PingMsg, "", checks, FALSE, res)

\* Dispatcher::dispatch_hot and EchoBinaryService::handle_binary (svc_id 1)
DispatchHot(c, msg, checks, res) ==
    IF msg.svc_id # 1
    THEN HotReply(c, "BAD_REQUEST", "bad request: unknown hot svc_id", checks, res)
    ELSE IF active_room[c] = NoRoom
    THEN HotReply(c, "BAD_REQUEST", "bad request: no active_room", checks, res)
    ELSE H("echo", PingMsg, "", checks, FALSE, res)

\* the Inbound::Hot arm
HandleHot(c, msg, ta) ==
    LET res == check_hot(msg.bytes_len, msg.svc_id, msg.opcode, ta)
    IN CASE res.dec.d = "Drop" -> H("continue", PingMsg, "", res.checks, FALSE, res)
         [] res.dec.d = "Reject" -> HotReply(c, res.dec.code, res.dec.msg, res.checks, res)
         [] res.dec.d = "Close" ->
               IF cfg.policy.hot_error_mode = "sys_error"
               THEN H("reply_break", sys_error_json(res.dec.code, res.dec.msg, c), "policy_close",
                      res.checks, FALSE, res)
               ELSE H("break", PingMsg, "policy_close", res.checks, FALSE, res)
         [] OTHER ->
               IF cfg.policy.hot_requires_active_room /\ active_room[c] = NoRoom
               THEN HotReply(c, "BAD_REQUEST", "no active room", res.checks, res)
               ELSE DispatchHot(c, msg, Append(res.checks, "dispatch"), res)

\* the text of the error codec::decode returns: an invalid envelope, or a hot
\* frame too short for its header
DecodeErrorText(kind) ==
    IF kind = "text" THEN "bad request: invalid envelope json"
    ELSE "bad request: hot frame too short"

\* the select arm ws_rx.next() for one decoded or undecodable frame
Handle(c, msg, ca, ta) ==
    CASE decode(msg) = "Err" ->
            H("reply_break", sys_error_json("BAD_REQUEST", DecodeErrorText(msg.kind), c),
              "decode_error", <<>>, FALSE, NotAsked)
      [] decode(msg) = "Ping" -> H("reply", PongMsg, "", <<>>, FALSE, NotAsked)
      [] decode(msg) = "Pong" -> H("continue", PingMsg, "", <<>>, FALSE, NotAsked)
      [] decode(msg) = "Close" -> H("break", PingMsg, "peer_close", <<>>, FALSE, NotAsked)
      [] decode(msg) = "Text" -> HandleText(c, msg, ca, ta)
      [] OTHER -> HandleHot(c, msg, ta)

\* the record kept in last[c]; conn_empty: the connection has a limiter whose
\* bucket, refilled for the time elapsed, holds no token when the frame arrives
LastOf(msg, h, ca) ==
    [kind |-> msg.kind, lane |-> decode(msg), big |-> msg.bytes_len > cfg.limits.max_frame_bytes,
     dec |-> h.dec, act |-> h.act, checks |-> h.checks, conn_asked |-> h.conn_asked,
     conn_empty |-> new_connection_limiter /\ ~ca.ok]

RECURSIVE SumFrames(_)
SumFrames(S) ==
    IF S = {} THEN 0
    ELSE LET c == CHOOSE x \in S : TRUE IN nframes[c] + SumFrames(S \ {c})

\* the inbound frames and ping ticks handled so far, over all connections
FramesHandled == SumFrames(Conns)

\* one inbound frame, up to the first step that touches presence or a queue of
\* another session
RecvFrame(c, msg, e_conn, e_tenant) ==
    /\ pc[c] = "steady"
    /\ FramesHandled < MaxFrames
    /\ nframes' = [nframes EXCEPT ![c] = @ + 1]
    /\ LET p == cfg.policy
           ca == allow(conn_tokens[c], e_conn, p.rate_limit_rps, p.rate_limit_burst)
           ta == allow(tenant_tokens, e_tenant, p.rate_limit_rps, p.rate_limit_burst)
           h == Handle(c, msg, ca, ta)
       IN /\ conn_tokens' = IF h.conn_asked THEN [conn_tokens EXCEPT ![c] = ca.tokens]
                            ELSE conn_tokens
          /\ tenant_tokens' = IF h.tenant_asked THEN ta.tokens ELSE tenant_tokens
          /\ last' = [last EXCEPT ![c] = LastOf(msg, h, ca)]
          /\ CASE h.act = "continue" -> UNCHANGED <<pc, loc, why, queue, enq, active_room>>
               [] h.act = "reply" ->
                     OwnSend(c, h.m, FALSE, "") /\ UNCHANGED active_room
               [] h.act = "reply_break" ->
                     OwnSend(c, h.m, TRUE, h.reason) /\ UNCHANGED active_room
               [] h.act = "break" ->
                     /\ pc' = [pc EXCEPT ![c] = "rm_index"]
                     /\ loc' = DropLoc(c)
                     /\ why' = [why EXCEPT ![c] = h.reason]
                     /\ UNCHANGED <<queue, enq, active_room>>
               [] h.act = "join" ->
                     /\ pc' = [pc EXCEPT ![c] = "tj_limits"]
                     /\ loc' = [loc EXCEPT ![c].tj_room = msg.room]
                     /\ UNCHANGED <<why, queue, enq, active_room>>
               [] h.act = "leave" ->
                     IF active_room[c] # NoRoom
                     THEN /\ active_room' = [active_room EXCEPT ![c] = NoRoom]
                          /\ pc' = [pc EXCEPT ![c] = "lv_routing"]
                          /\ loc' = [loc EXCEPT ![c].lv_room = room_key(Tenant, active_room[c]),
                                                ![c].lv_key = MyKey(c), ![c].lv_ret = "frame"]
                          /\ UNCHANGED <<why, queue, enq>>
                     ELSE OwnSend(c, sys_left_json(c), FALSE, "") /\ UNCHANGED active_room
               [] h.act = "chat" ->
                     /\ pc' = [pc EXCEPT ![c] = "pub_rel"]
                     /\ loc' = [loc EXCEPT ![c].pub_keys = sessions_in(room_key(Tenant, msg.room)),
                                           ![c].do_timeout = ChatTimeoutMs > 0]
                     /\ UNCHANGED <<why, queue, enq, active_room>>
               [] OTHER ->
                     /\ pc' = [pc EXCEPT ![c] = "pub_lossy"]
                     /\ loc' = [loc EXCEPT ![c].pub_keys =
                                   sessions_in(room_key(Tenant, active_room[c]))]
                     /\ UNCHANGED <<why, queue, enq, active_room>>
    /\ UNCHANGED <<cfg, mainvars, sid, next_sid, sock, regvars, presvars, ws_active_sessions>>

\* Ok(_) of join_room_with_limits: sess.active_room = Some(room); send sys.joined
JoinedReply(c) ==
    /\ pc[c] = "joined_reply"
    /\ active_room' = [active_room EXCEPT ![c] = loc[c].tj_room]
    /\ OwnSend(c, sys_joined_json(loc[c].tj_room, c), FALSE, "")
    /\ UNCHANGED <<cfg, mainvars, sid, next_sid, sock, nframes, polvars, regvars, presvars,
                   ws_active_sessions>>

\* Err(e) of join_room_with_limits: send sys.error
JoinErr(c) ==
    /\ pc[c] = "join_err"
    /\ OwnSend(c, sys_error_json("RESOURCE_EXHAUSTED", loc[c].tj_err, c), FALSE, "")
    /\ UNCHANGED <<cfg, mainvars, sid, next_sid, sock, nframes, active_room, polvars, regvars,
                   presvars, ws_active_sessions>>

\* after ctx.leave_room: send sys.left
LeftReply(c) ==
    /\ pc[c] = "left_reply"
    /\ OwnSend(c, sys_left_json(c), FALSE, "")
    /\ UNCHANGED <<cfg, mainvars, sid, next_sid, sock, nframes, active_room, polvars, regvars,
                   presvars, ws_active_sessions>>

\* the recipient's queue awaited instead of tried
PublishLossyAwait(c, k) ==
    /\ pc[c] = "pub_lossy"
    /\ k \in loc[c].pub_keys
    /\ get_session(k) # NoConn => (~RxOpen(get_session(k)) \/ try_send_ok(get_session(k)))
    /\ loc' = [loc EXCEPT ![c].pub_keys = @ \ {k}]
    /\ IF get_session(k) # NoConn
       THEN Enqueue(get_session(k), BinaryMsg(c))
       ELSE UNCHANGED <<queue, enq>>
    /\ drop_count' = drop_count
    /\ UNCHANGED <<cfg, draining, shutdown, prior, pc, sid, why, next_sid, sock, nframes,
                   active_room, polvars, regvars, presvars, ws_active_sessions, sidevars>>

\* publish_room_lossy, one turn of `for sid in sessions`: get_session, try_send;
\* a failed try_send is counted in DROP_COUNT
PublishLossy(c, k) ==
    /\ pc[c] = "pub_lossy"
    /\ k \in loc[c].pub_keys
    /\ loc' = [loc EXCEPT ![c].pub_keys = @ \ {k}]
    /\ IF get_session(k) # NoConn
       THEN /\ Enqueue(get_session(k), BinaryMsg(c))
            /\ drop_count' = IF try_send_ok(get_session(k)) THEN drop_count
                             ELSE fetch_add(drop_count)
       ELSE UNCHANGED <<queue, enq, drop_count>>
    /\ UNCHANGED <<cfg, draining, shutdown, prior, pc, sid, why, next_sid, sock, nframes,
                   active_room, polvars, regvars, presvars, ws_active_sessions, sidevars>>

\* publish_room_reliable, one turn of `for sid in sessions`: get_session; the
\* Connection found is moved into a future pushed on futs
PublishResolve(c, k) ==
    /\ pc[c] = "pub_rel"
    /\ k \in loc[c].pub_keys
    /\ loc' = [loc EXCEPT ![c].pub_keys = @ \ {k},
                          ![c].pub_futs = IF get_session(k) # NoConn
                                          THEN @ \cup {get_session(k)} ELSE @]
    /\ UNCHANGED <<cfg, mainvars, pc, sid, why, next_sid, chanvars, nframes, active_room, polvars,
                   regvars, presvars, ws_active_sessions>>

\* the future completing at once on a full queue, the message lost
PublishReliableTry(c, d) ==
    /\ pc[c] = "pub_rel"
    /\ loc[c].pub_keys = {}
    /\ d \in loc[c].pub_futs
    /\ loc' = [loc EXCEPT ![c].pub_futs = @ \ {d}]
    /\ Enqueue(d, ChatMsg(c))
    /\ send_fail_count' = send_fail_count
    /\ UNCHANGED <<cfg, relvars, pc, sid, why, next_sid, sock, nframes, active_room, polvars,
                   regvars, presvars, ws_active_sessions>>

\* publish_room_reliable, one of the futures: conn.tx.send(msg) completes, because
\* the queue has room or because its receiver is gone; the SendError is counted in
\* SEND_FAIL_COUNT when no timeout wraps the send (under a timeout it is Ok(Err(_)))
PublishReliable(c, d) ==
    /\ pc[c] = "pub_rel"
    /\ loc[c].pub_keys = {}
    /\ d \in loc[c].pub_futs
    /\ ~RxOpen(d) \/ try_send_ok(d)
    /\ loc' = [loc EXCEPT ![c].pub_futs = @ \ {d}]
    /\ Enqueue(d, ChatMsg(c))
    /\ send_fail_count' = IF ~RxOpen(d) /\ ~loc[c].do_timeout THEN fetch_add(send_fail_count)
                          ELSE send_fail_count
    /\ UNCHANGED <<cfg, relvars, pc, sid, why, next_sid, sock, nframes, active_room, polvars,
                   regvars, presvars, ws_active_sessions>>

\* the deadline passing with the failure left uncounted
PublishReliableSilent(c, d) ==
    /\ pc[c] = "pub_rel"
    /\ loc[c].pub_keys = {}
    /\ d \in loc[c].pub_futs
    /\ loc[c].do_timeout
    /\ RxOpen(d)
    /\ ~try_send_ok(d)
    /\ loc' = [loc EXCEPT ![c].pub_futs = @ \ {d}]
    /\ send_fail_count' = send_fail_count
    /\ UNCHANGED <<cfg, relvars, pc, sid, why, next_sid, chanvars, nframes, active_room, polvars,
                   regvars, presvars, ws_active_sessions>>

\* publish_room_reliable, one of the futures under timeout_ms > 0: the queue stays
\* full for timeout_ms; the Elapsed is counted in SEND_FAIL_COUNT
PublishReliableTimeout(c, d) ==
    /\ pc[c] = "pub_rel"
    /\ loc[c].pub_keys = {}
    /\ d \in loc[c].pub_futs
    /\ loc[c].do_timeout
    /\ RxOpen(d)
    /\ ~try_send_ok(d)
    /\ loc' = [loc EXCEPT ![c].pub_futs = @ \ {d}]
    /\ send_fail_count' = fetch_add(send_fail_count)
    /\ UNCHANGED <<cfg, relvars, pc, sid, why, next_sid, chanvars, nframes, active_room, polvars,
                   regvars, presvars, ws_active_sessions>>

\* the publish returns Ok(()) and the loop goes back to its select
PublishDone(c) ==
    /\ pc[c] \in {"pub_lossy", "pub_rel"}
    /\ loc[c].pub_keys = {}
    /\ loc[c].pub_futs = {}
    /\ pc' = [pc EXCEPT ![c] = "steady"]
    /\ loc' = [loc EXCEPT ![c].do_timeout = FALSE]
    /\ UNCHANGED <<cfg, mainvars, sid, why, next_sid, chanvars, nframes, active_room, polvars,
                   regvars, presvars, ws_active_sessions>>

\* select arm ping_tick.tick(): out_tx.send(Ping).await
PingTick(c) ==
    /\ pc[c] = "steady"
    /\ FramesHandled < MaxFrames
    /\ nframes' = [nframes EXCEPT ![c] = @ + 1]
    /\ OwnSend(c, PingMsg, FALSE, "")
    /\ UNCHANGED <<cfg, mainvars, sid, next_sid, sock, active_room, polvars, regvars, presvars,
                   ws_active_sessions>>

\* select arm idle_tick.tick() once last_activity is idle_timeout_ms old
IdleTimeout(c) ==
    /\ pc[c] = "steady"
    /\ OwnSend(c, sys_error_json("TIMEOUT", "idle", c), TRUE, "idle_timeout")
    /\ UNCHANGED <<cfg, mainvars, sid, next_sid, sock, nframes, active_room, polvars, regvars,
                   presvars, ws_active_sessions>>

\* ------------------------------------------------ main: graceful shutdown
\* everything but the shutdown task's own variables and the queues it sends on
ServerVars == <<cfg, pc, sid, loc, why, next_sid, sock, nframes, active_room, polvars,
                regvars, presvars, ws_active_sessions, prior, sidevars>>

\* the shutdown signal arrives: state.enter_draining() sets the flag
EnterDraining ==
    /\ shutdown.pc = "serving"
    /\ draining' = TRUE
    /\ shutdown' = [shutdown EXCEPT !.pc = "flagged", !.frames = nframes]
    /\ UNCHANGED <<ServerVars, chanvars, drop_count>>

\* SessionRegistry::all_sessions: (session_key, Connection) of every entry
all_sessions == {<<k, sessions[k].conn>> : k \in DOMAIN sessions}

\* best_effort_shutdown_all: let sessions = self.sessions.all_sessions()
ShutdownSnapshot ==
    /\ shutdown.pc = "flagged"
    /\ shutdown' = [shutdown EXCEPT !.pc = "sending", !.sessions = all_sessions]
    /\ UNCHANGED <<ServerVars, chanvars, draining, drop_count>>

\* one turn of `for (session_key, conn) in sessions`: conn.tx.try_send(Close 1001)
ShutdownSend(e) ==
    /\ shutdown.pc = "sending"
    /\ e \in shutdown.sessions \ shutdown.sent
    /\ Enqueue(e[2], CloseFrame(1001, "draining"))
    /\ drop_count' = IF try_send_ok(e[2]) THEN drop_count ELSE fetch_add(drop_count)
    /\ shutdown' = [shutdown EXCEPT !.sent = @ \cup {e}]
    /\ UNCHANGED <<ServerVars, sock, draining>>

\* best_effort_shutdown_all returns; main waits out the grace period
ShutdownDone ==
    /\ shutdown.pc = "sending"
    /\ shutdown.sessions = shutdown.sent
    /\ shutdown' = [shutdown EXCEPT !.pc = "done"]
    /\ UNCHANGED <<ServerVars, chanvars, draining, drop_count>>

Shutdown ==
    \/ EnterDraining \/ ShutdownSnapshot
    \/ (\E e \in shutdown.sessions : ShutdownSend(e)) \/ ShutdownDone

\* ------------------------------------------------------------------ Spec
\* the registry operations, each the disjunction of its steps
TryInsert(c) ==
    \/ TryInsertStart(c) \/ TryInsertAdd(c) \/ TryInsertCheck(c) \/ TryInsertIndex(c)
    \/ TryInsertSessions(c)

RemoveSession(c) ==
    \/ RemoveIndex(c) \/ RemoveIndexDrop(c) \/ RemoveSessions(c) \/ RemoveCounter(c)

EvictOldest(c) ==
    \/ EvictKeys(c) \/ (\E k \in loc[c].keys : EvictScan(c, k)) \/ EvictPick(c)

Registry(c) == TryInsert(c) \/ RemoveSession(c) \/ EvictOldest(c)

\* upgrades, session admission, the writer, peer close and cleanup; clients send
\* no frames
Admission(c) ==
    \/ Upgrade(c)
    \/ (\E ticket \in Tickets, q_sid \in ClientSids \cup {NoSid} : RunSession(c, ticket, q_sid))
    \/ KickKicked(c) \/ KickClose(c) \/ KickGauge(c)
    \/ Admitted(c) \/ SendAuthed(c)

Next ==
    \E c \in Conns :
        \/ Admission(c)
        \/ Registry(c)
        \/ WriterSend(c) \/ WriterTimeout(c) \/ PeerClose(c)
        \/ CleanupStart(c) \/ CleanupDone(c) \/ DropGauge(c)

Spec == Init /\ [][Next]_vars

\* ------------------------------------------------ after session admission
\* The state in which every connection has been admitted, one after the other in
\* the order of Conns, under the sids f: try_insert has returned, the gauge is
\* incremented, the SessionCleanup guard is armed, and sys.authed has been sent and
\* written to the socket: every connection is in its select loop.
AdmittedKeys(f) == {session_key(Tenant, UserId, f[c]) : c \in Conns}

\* the connection whose try_insert wrote the entry under key k last
LastInserter(f, k) == CHOOSE c \in Conns :
    /\ session_key(Tenant, UserId, f[c]) = k
    /\ \A d \in Conns : session_key(Tenant, UserId, f[d]) = k => d <= c

AdmittedState(f, generated) ==
    /\ pc = [c \in Conns |-> "steady"]
    /\ sid = f
    /\ loc = [c \in Conns |-> LocInit]
    /\ why = [c \in Conns |-> ""]
    /\ next_sid = IF generated THEN NConn + 1 ELSE 1
    /\ queue = [c \in Conns |-> <<>>]
    /\ enq = [c \in Conns |-> <<sys_authed_json(f[c], c)>>]
    /\ sock = [c \in Conns |-> <<sys_authed_json(f[c], c)>>]
    /\ nframes = [c \in Conns |-> 0]
    /\ active_room = [c \in Conns |-> NoRoom]
    /\ conn_tokens = [c \in Conns |-> TokenBucketNew(cfg.policy.rate_limit_burst)]
    /\ tenant_tokens = TokenBucketNew(cfg.policy.rate_limit_burst)
    /\ sessions = [k \in AdmittedKeys(f) |->
                      SessionEntry(LastInserter(f, k), LastInserter(f, k), Tenant)]
    /\ user_index = [u \in {UK} |-> AdmittedKeys(f)]
    /\ tenant_counts = [t \in {Tenant} |-> NConn]
    /\ seq = NConn + 1
    /\ tc_guard = NoConn
    /\ room_to_sessions = EmptyMap
    /\ session_to_rooms = EmptyMap
    /\ room_to_users = EmptyMap
    /\ user_to_rooms = EmptyMap
    /\ user_room_refs = EmptyMap
    /\ tenant_room_counts = EmptyMap
    /\ refs_guard = {}
    /\ ws_active_sessions = NConn
    /\ last = [c \in Conns |-> NoFrame]
    /\ evicted = {}
    /\ draining = FALSE
    /\ drop_count = 0
    /\ handshake = HandshakeOff /\ hot = NoHot /\ bucket = NoBucket
    /\ call = NoCall /\ send_fail_count = 0
    /\ tally = TallyOf(GetOr(tenant_counts, Tenant, 0))
    /\ shutdown = ShutdownInit

\* every connection under the one client-chosen sid, or each under a generated sid
SameSid == [c \in Conns |-> MaxClientSid]
OwnSid == [c \in Conns |-> c]

MultiPolicy == [DefaultPolicy EXCEPT !.sessions =
                  [mode |-> "multi", max_sessions_per_user |-> MaxPerUser, on_exceed |-> "deny"]]

TryJoin(c) ==
    \/ TryJoinLimits(c) \/ TryJoinNew(c) \/ TryJoinCounter(c) \/ TryJoinRouting(c)
    \/ TryJoinSessionRooms(c) \/ TryJoinRefs(c) \/ TryJoinRoomUsers(c) \/ TryJoinUserRooms(c)

Leave(c) ==
    \/ LeaveRouting(c) \/ LeaveRoutingDrop(c) \/ LeaveSessionRooms(c)
    \/ LeaveSessionRoomsDrop(c) \/ LeaveRefs(c) \/ LeaveRefsDrop(c) \/ LeaveUserRooms(c)
    \/ LeaveUserRoomsDrop(c) \/ LeaveRoomUsers(c) \/ LeaveRoomUsersDrop(c) \/ LeaveCounter(c)

CleanupSession(c) ==
    \/ CleanupStart(c) \/ (\E rk \in loc[c].cs_rooms : CleanupLeave(c, rk)) \/ CleanupDone(c)

\* ------------------------------------------------------------- SpecRooms
\* admitted connections of one user joining and leaving rooms and closing; no
\* limits, no eviction; the replies stay queued (the socket writer does not run)
RoomConfigs == {[limits |-> DefaultLimits,
                 policy |-> [MultiPolicy EXCEPT !.rate_limit_burst = MaxFrames]]}

\* the frames of one connection arrive within 50 ms of each other
RoomElapsed == {0}

RoomFrames == {TextMsg(TRUE, 1, "room", "join", r) : r \in Rooms}
              \cup {TextMsg(TRUE, 1, "room", "leave", NoRoom)}

InitRooms ==
    /\ cfg \in RoomConfigs
    /\ AdmittedState(SameSid, FALSE) \/ AdmittedState(OwnSid, TRUE)
    /\ prior = EmptyMap

NextRooms ==
    \E c \in Conns :
        \/ (\E msg \in RoomFrames, e \in RoomElapsed : RecvFrame(c, msg, e, e))
        \/ TryJoin(c) \/ JoinedReply(c) \/ Leave(c) \/ LeftReply(c)
        \/ PeerClose(c)
        \/ RemoveSession(c) \/ CleanupSession(c) \/ DropGauge(c)

SpecRooms == InitRooms /\ [][NextRooms]_vars

\* -------------------------------------------------------------- SpecLoop
\* admitted connections of one user, each under its own sid, in their select
\* loops: room joins, chat and hot-lane fan-out, undecodable and oversize frames,
\* the idle timeout, the socket writer writing in time, and the exits
LoopPolicy(scope) ==
    [MultiPolicy EXCEPT !.rate_limit_scope = scope,
                        !.ext_allowlist = {<<"room", "*">>, <<"chat", "send">>},
                        !.hot_allowlist = {HotRule(1, TRUE, 0)}]

LoopConfigs == {[limits |-> DefaultLimits,
                 policy |-> [LoopPolicy("connection") EXCEPT !.rate_limit_burst = MaxFrames]]}

LoopFrames ==
    {TextMsg(TRUE, 1, "room", "join", 1), TextMsg(TRUE, 1, "chat", "send", 1),
     TextMsg(TRUE, 5, "chat", "send", 1), TextMsg(FALSE, 1, "", "", NoRoom),
     BinMsg(TRUE, 1, 1, 1)}

InitLoop == cfg \in LoopConfigs /\ AdmittedState(OwnSid, TRUE) /\ prior = EmptyMap

Publish(c) ==
    \/ (\E k \in loc[c].pub_keys : PublishLossy(c, k) \/ PublishResolve(c, k))
    \/ (\E d \in loc[c].pub_futs : PublishReliable(c, d) \/ PublishReliableTimeout(c, d))
    \/ PublishDone(c)

\* leave as cleanup_session calls it: the session_to_rooms entry is already removed
LeaveAfterCleanup(c) ==
    \/ LeaveRouting(c) \/ LeaveRoutingDrop(c) \/ LeaveSessionRooms(c)
    \/ LeaveRefs(c) \/ LeaveRefsDrop(c) \/ LeaveUserRooms(c)
    \/ LeaveUserRoomsDrop(c) \/ LeaveRoomUsers(c) \/ LeaveRoomUsersDrop(c) \/ LeaveCounter(c)

NextLoop ==
    \E c \in Conns :
        \/ (\E msg \in LoopFrames, e \in RoomElapsed : RecvFrame(c, msg, e, e))
        \/ TryJoin(c) \/ JoinedReply(c) \/ Publish(c)
        \/ IdleTimeout(c)
        \/ WriterSend(c)
        \/ RemoveSession(c) \/ CleanupSession(c) \/ LeaveAfterCleanup(c) \/ DropGauge(c)

SpecLoop == InitLoop /\ [][NextLoop]_vars

\* ------------------------------------------------------------ SpecPolicy
\* admitted connections sending frames of both lanes, within and over
\* max_frame_bytes, allowed and not allowed, under each rate_limit_scope; nobody
\* is in a room
PolicyConfigs == {[limits |-> DefaultLimits, policy |-> LoopPolicy(scope)] :
                  scope \in {"tenant", "connection", "both"}}

PolicyFrames ==
    {TextMsg(TRUE, n, svc, "send", 1) : n \in {1, 5}, svc \in {"chat", "admin"}}
    \cup {BinMsg(TRUE, n, 1, 1) : n \in {1, 5}}

InitPolicy == cfg \in PolicyConfigs /\ AdmittedState(OwnSid, TRUE) /\ prior = EmptyMap

NextPolicy ==
    \E c \in Conns :
        \/ (\E msg \in PolicyFrames, e \in Elapsed : RecvFrame(c, msg, e, e))
        \/ PublishDone(c) \/ PingTick(c)
        \/ WriterSend(c)
        \/ RemoveSession(c) \/ CleanupStart(c) \/ CleanupDone(c) \/ DropGauge(c)

SpecPolicy == InitPolicy /\ [][NextPolicy]_vars

\* ------------------------------------------------------------- SpecDrain
\* upgrades of one user under generated sids, the select loop with room.leave
\* frames (each answered with sys.left), the socket writer, peer close, and the
\* shutdown signal arriving at any moment
DrainFrames == {TextMsg(TRUE, 1, "room", "leave", NoRoom)}

\* connection 1 has been admitted under the generated sid 1 and is in its select
\* loop, sys.authed written; the other upgrade requests have not arrived yet
FirstAdmitted ==
    /\ pc = [c \in Conns |-> IF c = 1 THEN "steady" ELSE "new"]
    /\ sid = [c \in Conns |-> IF c = 1 THEN 1 ELSE NoSid]
    /\ loc = [c \in Conns |-> LocInit]
    /\ why = [c \in Conns |-> ""]
    /\ next_sid = 2
    /\ queue = [c \in Conns |-> <<>>]
    /\ enq = [c \in Conns |-> IF c = 1 THEN <<sys_authed_json(1, 1)>> ELSE <<>>]
    /\ sock = [c \in Conns |-> IF c = 1 THEN <<sys_authed_json(1, 1)>> ELSE <<>>]
    /\ nframes = [c \in Conns |-> 0]
    /\ active_room = [c \in Conns |-> NoRoom]
    /\ conn_tokens = [c \in Conns |->
                        IF c = 1 THEN TokenBucketNew(cfg.policy.rate_limit_burst) ELSE 0]
    /\ tenant_tokens = TokenBucketNew(cfg.policy.rate_limit_burst)
    /\ sessions = [k \in {session_key(Tenant, UserId, 1)} |-> SessionEntry(1, 1, Tenant)]
    /\ user_index = [u \in {UK} |-> {session_key(Tenant, UserId, 1)}]
    /\ tenant_counts = [t \in {Tenant} |-> 1]
    /\ seq = 2
    /\ tc_guard = NoConn
    /\ room_to_sessions = EmptyMap
    /\ session_to_rooms = EmptyMap
    /\ room_to_users = EmptyMap
    /\ user_to_rooms = EmptyMap
    /\ user_room_refs = EmptyMap
    /\ tenant_room_counts = EmptyMap
    /\ refs_guard = {}
    /\ ws_active_sessions = 1
    /\ last = [c \in Conns |-> NoFrame]
    /\ evicted = {}
    /\ draining = FALSE
    /\ drop_count = 0
    /\ handshake = HandshakeOff /\ hot = NoHot /\ bucket = NoBucket
    /\ call = NoCall /\ send_fail_count = 0
    /\ tally = TallyOf(GetOr(tenant_counts, Tenant, 0))
    /\ shutdown = ShutdownInit
    /\ prior = EmptyMap

InitDrain == cfg \in RoomConfigs /\ FirstAdmitted

NextDrain ==
    \/ Shutdown
    \/ \E c \in Conns :
        \/ Upgrade(c) \/ RunSession(c, "dev", NoSid)
        \/ TryInsert(c) \/ Admitted(c) \/ SendAuthed(c)
        \/ (\E msg \in DrainFrames, e \in RoomElapsed : RecvFrame(c, msg, e, e))
        \/ WriterSend(c) \/ PeerClose(c)
        \/ RemoveSession(c) \/ CleanupStart(c) \/ CleanupDone(c) \/ DropGauge(c)

SpecDrain == InitDrain /\ [][NextDrain]_vars

\* -------------------------------------------------------------- SpecKick
\* mode single with kick_oldest: connection 1 is in its select loop, later upgrades
\* of the same user evict the session before them; clients send room.leave frames
KickPolicy == [DefaultPolicy EXCEPT !.sessions =
                 [mode |-> "single", max_sessions_per_user |-> 1, on_exceed |-> "kick_oldest"],
               !.rate_limit_burst = MaxFrames]

KickConfigs == {[limits |-> DefaultLimits, policy |-> KickPolicy]}

InitKick == cfg \in KickConfigs /\ FirstAdmitted

NextKick ==
    \E c \in Conns :
        \/ Upgrade(c) \/ RunSession(c, "dev", NoSid)
        \/ KickKicked(c) \/ KickClose(c) \/ KickGauge(c)
        \/ Registry(c) \/ Admitted(c) \/ SendAuthed(c)
        \/ (\E msg \in DrainFrames, e \in RoomElapsed : RecvFrame(c, msg, e, e))
        \/ WriterSend(c) \/ PeerClose(c)
        \/ CleanupStart(c) \/ CleanupDone(c) \/ DropGauge(c)

SpecKick == InitKick /\ [][NextKick]_vars

\* ------------------------------------------------------------- SpecLimits
\* admitted connections of one user, each under its own sid, joining and leaving
\* rooms under a room limit: one room per user, or one room per tenant
LimitRooms == 1..(NRooms + 1)

LimitConfigs ==
    {[limits |-> [DefaultLimits EXCEPT !.max_rooms_per_user = per_user,
                                       !.max_rooms_total = total],
      policy |-> [MultiPolicy EXCEPT !.rate_limit_burst = MaxFrames]] :
     <<per_user, total>> \in {<<1, 0>>, <<0, 1>>}}

LimitFrames == {TextMsg(TRUE, 1, "room", "join", r) : r \in LimitRooms}
               \cup {TextMsg(TRUE, 1, "room", "leave", NoRoom)}

InitLimits == cfg \in LimitConfigs /\ AdmittedState(OwnSid, TRUE) /\ prior = EmptyMap

NextLimits ==
    \E c \in Conns :
        \/ (\E msg \in LimitFrames, e \in RoomElapsed : RecvFrame(c, msg, e, e))
        \/ TryJoin(c) \/ JoinedReply(c) \/ JoinErr(c) \/ Leave(c) \/ LeftReply(c)
        \/ WriterSend(c)

SpecLimits == InitLimits /\ [][NextLimits]_vars

\* --------------------------------------------------------------- SpecRefs
\* a try_join and then a leave by connection 1 for room 1, from every presence
\* state the other admitted connections produce by joining the room first (under
\* sids of their own, or all under one sid).  The pair begins when the others are
\* back in their select loops and user_room_refs is what prior says.
PairRoom == 1

PriorRefs == {EmptyMap} \cup {[k \in {ref_key(UK, room_key(Tenant, PairRoom))} |-> n] :
                              n \in 1..(NConn - 1)}

InitRefs ==
    /\ cfg \in RoomConfigs
    /\ AdmittedState(SameSid, FALSE) \/ AdmittedState(OwnSid, TRUE)
    /\ prior \in PriorRefs

PairReady ==
    /\ nframes[1] = 0
    /\ \A d \in Conns \ {1} : pc[d] = "steady"
    /\ user_room_refs = prior

NextRefs ==
    \E c \in Conns :
        \/ (\E e \in RoomElapsed :
               /\ c # 1 /\ nframes[1] = 0
               /\ RecvFrame(c, TextMsg(TRUE, 1, "room", "join", PairRoom), e, e))
        \/ (\E e \in RoomElapsed :
               /\ c = 1 /\ PairReady
               /\ RecvFrame(c, TextMsg(TRUE, 1, "room", "join", PairRoom), e, e))
        \/ (\E e \in RoomElapsed :
               /\ c = 1 /\ nframes[1] = 1
               /\ RecvFrame(c, TextMsg(TRUE, 1, "room", "leave", NoRoom), e, e))
        \/ TryJoin(c) \/ JoinedReply(c) \/ Leave(c) \/ LeftReply(c)
        \/ WriterSend(c)

SpecRefs == InitRefs /\ [][NextRefs]_vars

\* ------------------------------------------------ SpecLossy, SpecReliable
\* The state in which every connection, admitted under a sid of its own, has joined
\* room 1 and has had sys.authed and sys.joined written to its socket; the token
\* buckets are full again, and frames are counted and recorded from here on.
JoinedState ==
    /\ pc = [c \in Conns |-> "steady"]
    /\ sid = OwnSid
    /\ loc = [c \in Conns |-> LocInit]
    /\ why = [c \in Conns |-> ""]
    /\ next_sid = NConn + 1
    /\ queue = [c \in Conns |-> <<>>]
    /\ enq = [c \in Conns |-> <<sys_authed_json(c, c), sys_joined_json(1, c)>>]
    /\ sock = [c \in Conns |-> <<sys_authed_json(c, c), sys_joined_json(1, c)>>]
    /\ nframes = [c \in Conns |-> 0]
    /\ active_room = [c \in Conns |-> 1]
    /\ conn_tokens = [c \in Conns |-> TokenBucketNew(cfg.policy.rate_limit_burst)]
    /\ tenant_tokens = TokenBucketNew(cfg.policy.rate_limit_burst)
    /\ sessions = [k \in AdmittedKeys(OwnSid) |->
                      SessionEntry(LastInserter(OwnSid, k), LastInserter(OwnSid, k), Tenant)]
    /\ user_index = [u \in {UK} |-> AdmittedKeys(OwnSid)]
    /\ tenant_counts = [t \in {Tenant} |-> NConn]
    /\ seq = NConn + 1
    /\ tc_guard = NoConn
    /\ room_to_sessions = [rk \in {room_key(Tenant, 1)} |-> AdmittedKeys(OwnSid)]
    /\ session_to_rooms = [k \in AdmittedKeys(OwnSid) |-> {room_key(Tenant, 1)}]
    /\ room_to_users = [rk \in {room_key(Tenant, 1)} |-> {UK}]
    /\ user_to_rooms = [u \in {UK} |-> {room_key(Tenant, 1)}]
    /\ user_room_refs = [rf \in {ref_key(UK, room_key(Tenant, 1))} |-> NConn]
    /\ tenant_room_counts = [t \in {Tenant} |-> 1]
    /\ refs_guard = {}
    /\ ws_active_sessions = NConn
    /\ last = [c \in Conns |-> NoFrame]
    /\ evicted = {}
    /\ draining = FALSE
    /\ drop_count = 0
    /\ handshake = HandshakeOff /\ hot = NoHot /\ bucket = NoBucket
    /\ call = NoCall /\ send_fail_count = 0
    /\ tally = TallyOf(GetOr(tenant_counts, Tenant, 0))
    /\ shutdown = ShutdownInit
    /\ prior = EmptyMap

\* a service calls ctx.publish_room_reliable(room, out) with out.qos =
\* QoS::Reliable { timeout_ms } while it handles a frame of connection c
PublishRoomReliable(c, r, timeout_ms) ==
    /\ pc[c] = "steady"
    /\ FramesHandled < MaxFrames
    /\ nframes' = [nframes EXCEPT ![c] = @ + 1]
    /\ pc' = [pc EXCEPT ![c] = "pub_rel"]
    /\ loc' = [loc EXCEPT ![c].pub_keys = sessions_in(room_key(Tenant, r)),
                          ![c].do_timeout = timeout_ms > 0]
    /\ UNCHANGED <<cfg, mainvars, sid, why, next_sid, chanvars, active_room, polvars, regvars,
                   presvars, ws_active_sessions>>

PublishFrames == {BinMsg(TRUE, 1, 1, 1)}

InitPublish == cfg \in LoopConfigs /\ JoinedState

\* the exits of a connection and its SessionCleanup
Exit(c) ==
    \/ PeerClose(c) \/ RemoveSession(c) \/ CleanupSession(c) \/ LeaveAfterCleanup(c)
    \/ DropGauge(c)

\* hot frames echoed to the room by publish_room_lossy
NextLossy ==
    \E c \in Conns :
        \/ (\E msg \in PublishFrames, e \in RoomElapsed : RecvFrame(c, msg, e, e))
        \/ (\E k \in loc[c].pub_keys : PublishLossy(c, k))
        \/ PublishDone(c)
        \/ WriterSend(c)
        \/ Exit(c)

SpecLossy == InitPublish /\ [][NextLossy]_vars

\* publish_room_reliable called with timeout_ms = 0
NextReliable ==
    \E c \in Conns :
        \/ PublishRoomReliable(c, active_room[c], 0)
        \/ (\E k \in loc[c].pub_keys : PublishResolve(c, k))
        \/ (\E d \in loc[c].pub_futs : PublishReliable(c, d))
        \/ PublishDone(c)
        \/ WriterSend(c)
        \/ Exit(c)

SpecReliable == InitPublish /\ [][NextReliable]_vars

\* ------------------------------------------------------------- SpecLanes
\* admitted connections outside any room sending frames of both lanes under each
\* hot_error_mode, with an empty and a non-empty ext_allowlist, with and without
\* hot_requires_active_room: text frames the allowlist refuses, hot frames that
\* are well-formed, oversize, undecodable, or of a service id nobody registered
LanePolicy(scope, mode, exts, need_room) ==
    [MultiPolicy EXCEPT !.rate_limit_scope = scope,
                        !.ext_allowlist = exts,
                        !.hot_allowlist = {HotRule(1, TRUE, 0), HotRule(2, TRUE, 0)},
                        !.hot_error_mode = mode,
                        !.hot_requires_active_room = need_room]

LaneConfigs ==
    {[limits |-> DefaultLimits, policy |-> LanePolicy(scope, mode, exts, need_room)] :
        scope \in {"connection", "both"}, mode \in {"sys_error", "silent"},
        exts \in {{}, {<<"chat", "send">>}}, need_room \in BOOLEAN}

LaneFrames ==
    {TextMsg(TRUE, 1, "admin", "send", NoRoom)}
    \cup {BinMsg(ok, n, svc_id, 1) : ok \in BOOLEAN, n \in {1, 5}, svc_id \in {1, 2}}

InitLanes == cfg \in LaneConfigs /\ AdmittedState(OwnSid, TRUE) /\ prior = EmptyMap

NextLanes ==
    \E c \in Conns :
        \/ (\E msg \in LaneFrames, e \in Elapsed : RecvFrame(c, msg, e, e))
        \/ WriterSend(c)
        \/ RemoveSession(c) \/ CleanupStart(c) \/ CleanupDone(c) \/ DropGauge(c)

SpecLanes == InitLanes /\ [][NextLanes]_vars

\* --------------------------------------------------------- SpecHandshake
\* upgrade requests from a few addresses arriving at any instants of the clock,
\* with the defender enabled: per-IP buckets of one token refilled at 1/s, a
\* global bucket of one or two tokens, and an address map trimmed above one entry
HandshakeConfigs ==
    {[enabled |-> TRUE, global_burst |-> g, global_rps |-> 1, per_ip_burst |-> 1,
      per_ip_rps |-> 1, max_ip_entries |-> 1] : g \in {1, 2}}

ClockSteps == {200, 1000}

InitHandshake ==
    /\ cfg \in {[limits |-> DefaultLimits, policy |-> MultiPolicy]}
    /\ FreshState
    /\ \E hcfg \in HandshakeConfigs : handshake = HandshakeDefenderNew(hcfg)
    /\ hot = NoHot /\ bucket = NoBucket /\ tally = TallyOf(GetOr(tenant_counts, Tenant, 0))
    /\ call = NoCall /\ send_fail_count = 0

NextHandshake ==
    \/ \E d \in ClockSteps : Tick(d)
    \/ \E c \in Conns :
        \/ (\E ip \in Ips : HandshakeGlobal(c, ip))
        \/ (\E kept \in SUBSET Ips : HandshakeIp(c, kept))
        \/ UpgradeAllowed(c)

SpecHandshake == InitHandshake /\ [][NextHandshake]_vars

\* ---------------------------------------------------- decoding hot frames
\* everything but the two unit-level variables
appvars == <<cfg, pc, sid, loc, why, next_sid, chanvars, nframes, active_room, polvars,
             regvars, presvars, ws_active_sessions, draining, shutdown, prior, drop_count,
             handshake, tally, call, send_fail_count>>

\* every byte sequence of at most MaxHotLen bytes
HotInputs == UNION {[1..n -> ByteVals] : n \in 0..MaxHotLen}

\* the transport hands the bytes of a binary message to decode_hot_frame
DecodeHot ==
    /\ hot.res.tag = "none"
    /\ hot' = [hot EXCEPT !.res = decode_hot_frame(hot.buf)]
    /\ UNCHANGED <<appvars, bucket>>

\* a decoded frame is put back on the wire
EncodeHot ==
    /\ hot.res.tag = "ok"
    /\ hot' = [buf |-> encode_hot_frame(hot.res.frame), res |-> NotDecoded]
    /\ UNCHANGED <<appvars, bucket>>

InitHot ==
    /\ cfg \in {[limits |-> DefaultLimits, policy |-> MultiPolicy]}
    /\ FreshState
    /\ handshake = HandshakeOff /\ bucket = NoBucket
    /\ call = NoCall /\ send_fail_count = 0 /\ tally = TallyOf(0)
    /\ \E b \in HotInputs : hot = [buf |-> b, res |-> NotDecoded]

NextHot == DecodeHot \/ EncodeHot

SpecHot == InitHot /\ [][NextHot]_vars

\* ------------------------------------------------------------- SpecEvict
\* evict_oldest at the level of the registry: connection 1 has found its user at
\* the session limit and calls evict_oldest; connection 2 is a session of the
\* same user that is admitted, or inside its own try_insert, or inside the
\* remove_session of its cleanup; the other sessions of the user belong to
\* connections that sit idle in their loops.
ResidentSids == {11, 12}
ResidentKeys == {session_key(Tenant, UserId, s) : s \in ResidentSids}
\* the sids of the two connections, apart from those of the idle sessions
EvictSid(c) == 20 + c
MemberKey == session_key(Tenant, UserId, EvictSid(2))
MemberPcs == {"steady", "ti_sessions", "rm_index"}

\* the registry with the entries `table` (a map from keys to created_seq), the
\* indexed keys `indexed`, and connection 2 at `mpc`
EvictState(table, indexed, mpc) ==
    /\ pc = [c \in Conns |-> IF c = 1 THEN "ev_keys" ELSE mpc]
    /\ sid = [c \in Conns |-> EvictSid(c)]
    /\ loc = [c \in Conns |->
                IF c # 1 /\ mpc = "rm_index"
                THEN [LocInit EXCEPT !.rm_key = MemberKey, !.rm_ret = "drop"]
                ELSE LocInit]
    /\ why = [c \in Conns |-> ""]
    /\ next_sid = 1
    /\ queue = [c \in Conns |-> <<>>]
    /\ enq = [c \in Conns |-> <<>>]
    /\ sock = [c \in Conns |-> <<>>]
    /\ nframes = [c \in Conns |-> 0]
    /\ active_room = [c \in Conns |-> NoRoom]
    /\ conn_tokens = [c \in Conns |-> TokenBucketNew(cfg.policy.rate_limit_burst)]
    /\ tenant_tokens = TokenBucketNew(cfg.policy.rate_limit_burst)
    /\ sessions = [k \in DOMAIN table |->
                     SessionEntry(IF k = MemberKey THEN 2 ELSE NoConn, table[k], Tenant)]
    /\ user_index = IF indexed = {} THEN EmptyMap ELSE [u \in {UK} |-> indexed]
    /\ tenant_counts = [t \in {Tenant} |->
                          Cardinality(DOMAIN table) + (IF mpc = "ti_sessions" THEN 1 ELSE 0)]
    /\ seq = Cardinality(DOMAIN table) + 1
    /\ tc_guard = IF mpc = "ti_sessions" THEN 2 ELSE NoConn
    /\ room_to_sessions = EmptyMap
    /\ session_to_rooms = EmptyMap
    /\ room_to_users = EmptyMap
    /\ user_to_rooms = EmptyMap
    /\ user_room_refs = EmptyMap
    /\ tenant_room_counts = EmptyMap
    /\ refs_guard = {}
    /\ ws_active_sessions = Cardinality(DOMAIN table)
    /\ last = [c \in Conns |-> NoFrame]
    /\ evicted = {}
    /\ draining = FALSE
    /\ drop_count = 0
    /\ handshake = HandshakeOff /\ hot = NoHot /\ bucket = NoBucket
    /\ call = NoCall /\ send_fail_count = 0
    /\ tally = TallyOf(Cardinality(DOMAIN sessions))
    /\ shutdown = ShutdownInit
    /\ prior = EmptyMap

\* the created_seq values of n registered sessions: 1..n in some order
SeqOrders(keys) ==
    {f \in [keys -> 1..Cardinality(keys)] : \A j, k \in keys : j # k => f[j] # f[k]}

InitEvict ==
    /\ cfg \in KickConfigs
    /\ \E mpc \in MemberPcs, residents \in SUBSET ResidentKeys :
          LET keys == residents \cup (IF mpc = "ti_sessions" THEN {} ELSE {MemberKey})
          IN \E table \in SeqOrders(keys) :
                EvictState(table, residents \cup {MemberKey}, mpc)

NextEvict ==
    \E c \in Conns : EvictOldest(c) \/ RemoveSession(c) \/ TryInsertSessions(c)

SpecEvict == InitEvict /\ [][NextEvict]_vars

\* ----------------------------------------------------------- SpecPresence
\* Presence used by one caller at a time: whole calls of try_join, leave and
\* cleanup_session, for the sessions of two users, under every combination of
\* the three limits set to 1 or left off
MaxRefs == 2
PresUsers == {user_key(Tenant, "user:dev"), user_key(Tenant, "user:ops")}
PresSids == {1, 2}
\* a caller passes its own user_key and session_key; ops has one session
PresCallers == {<<uk, session_key(uk[1], uk[2], s)>> : uk \in PresUsers, s \in PresSids}
                   \ {<<user_key(Tenant, "user:ops"), session_key(Tenant, "user:ops", 2)>>}
PresRooms == {room_key(Tenant, r) : r \in LimitRooms}

PresConfigs ==
    {[limits |-> [DefaultLimits EXCEPT !.max_users_per_room = per_room,
                                       !.max_rooms_per_user = per_user,
                                       !.max_rooms_total = total],
      policy |-> MultiPolicy] : per_room \in {0, 1}, per_user \in {0, 1}, total \in {0, 1}}

CallOf(op, uk, sk, rk, err, rooms) ==
    [op |-> op, uk |-> uk, sk |-> sk, rk |-> rk, err |-> err, rooms |-> rooms,
     turn |-> 1 - call.turn]

\* the error try_join returns for these arguments, "" for Ok
try_join_err(rk, uk, limits) ==
    IF JoinLimitReached(rk, uk, limits) THEN JoinLimitText(rk, uk, limits)
    ELSE IF /\ ~Has(room_to_sessions, rk)
            /\ limits.max_rooms_total > 0
            /\ GetOr(tenant_room_counts, Tenant, 0) >= limits.max_rooms_total
         THEN "tenant room limit reached"
         ELSE ""

\* try_join from its first line to its return, nothing running beside it
try_join(rk, uk, sk, limits) ==
    LET is_new_room == ~Has(room_to_sessions, rk)
        n == GetOr(tenant_room_counts, Tenant, 0)
        rf == ref_key(uk, rk)
        refs == (GetOr(user_room_refs, rf, 0) + 1) % AtomicModulus
    IN IF JoinLimitReached(rk, uk, limits)
       THEN UNCHANGED presvars
       ELSE IF is_new_room /\ limits.max_rooms_total > 0 /\ n >= limits.max_rooms_total
       THEN /\ tenant_room_counts' = Put(tenant_room_counts, Tenant, n)
            /\ UNCHANGED <<room_to_sessions, session_to_rooms, room_to_users, user_to_rooms,
                           user_room_refs, refs_guard>>
       ELSE /\ tenant_room_counts' = IF is_new_room
                                     THEN Put(tenant_room_counts, Tenant, fetch_add(n))
                                     ELSE tenant_room_counts
            /\ room_to_sessions' = EntryInsert(room_to_sessions, rk, sk)
            /\ session_to_rooms' = EntryInsert(session_to_rooms, sk, rk)
            /\ user_room_refs' = Put(user_room_refs, rf, refs)
            /\ room_to_users' = IF refs = 1 THEN EntryInsert(room_to_users, rk, uk)
                                ELSE room_to_users
            /\ user_to_rooms' = IF refs = 1 THEN EntryInsert(user_to_rooms, uk, rk)
                                ELSE user_to_rooms
            /\ refs_guard' = refs_guard

\* set.remove(x); if set.is_empty() { map.remove(k) } on map.get(k)
EntryRemove(m, k, x) ==
    IF Has(m, k) THEN IF m[k] \ {x} = {} THEN Del(m, k) ELSE [m EXCEPT ![k] = @ \ {x}]
    ELSE m

\* leave from its first line to its return, nothing running beside it
leave(rk, uk, sk) ==
    LET room_empty == Has(room_to_sessions, rk) /\ room_to_sessions[rk] \ {sk} = {}
        rf == ref_key(uk, rk)
        remove_user_mapping == Has(user_room_refs, rf) /\ user_room_refs[rf] = 1
    IN /\ room_to_sessions' = EntryRemove(room_to_sessions, rk, sk)
       /\ session_to_rooms' = EntryRemove(session_to_rooms, sk, rk)
       /\ user_room_refs' = IF ~Has(user_room_refs, rf) THEN user_room_refs
                            ELSE IF remove_user_mapping THEN Del(user_room_refs, rf)
                            ELSE [user_room_refs EXCEPT ![rf] = (@ - 1) % AtomicModulus]
       /\ user_to_rooms' = IF remove_user_mapping THEN EntryRemove(user_to_rooms, uk, rk)
                           ELSE user_to_rooms
       /\ room_to_users' = IF remove_user_mapping THEN EntryRemove(room_to_users, rk, uk)
                           ELSE room_to_users
       /\ tenant_room_counts' = IF room_empty /\ Has(tenant_room_counts, Tenant)
                                THEN [tenant_room_counts EXCEPT ![Tenant] = fetch_sub(@)]
                                ELSE tenant_room_counts
       /\ refs_guard' = refs_guard

PresFrame == <<cfg, pc, sid, loc, why, next_sid, chanvars, nframes, active_room, polvars,
               regvars, ws_active_sessions, draining, shutdown, prior, drop_count,
               handshake, hot, bucket, tally, send_fail_count>>

PresJoin(uk, sk, rk) ==
    /\ call.rooms = {}
    /\ GetOr(user_room_refs, ref_key(uk, rk), 0) < MaxRefs
    /\ call' = CallOf("try_join", uk, sk, rk, try_join_err(rk, uk, cfg.limits), {})
    /\ try_join(rk, uk, sk, cfg.limits)
    /\ UNCHANGED PresFrame

PresLeave(uk, sk, rk) ==
    /\ call.rooms = {}
    /\ call' = CallOf("leave", uk, sk, rk, "", {})
    /\ leave(rk, uk, sk)
    /\ UNCHANGED PresFrame

\* cleanup_session: self.session_to_rooms.remove(session_key)
PresCleanup(uk, sk) ==
    /\ call.rooms = {}
    /\ call' = CallOf("cleanup_session", uk, sk, NoKey, "", GetOr(session_to_rooms, sk, {}))
    /\ session_to_rooms' = Del(session_to_rooms, sk)
    /\ UNCHANGED <<PresFrame, room_to_sessions, room_to_users, user_to_rooms, user_room_refs,
                   tenant_room_counts, refs_guard>>

\* one turn of `for r in rooms.iter()`: self.leave(tenant_id, room_key, ..)
PresCleanupLeave(rk) ==
    /\ rk \in call.rooms
    /\ call' = [call EXCEPT !.rooms = @ \ {rk}, !.rk = rk]
    /\ leave(rk, call.uk, call.sk)
    /\ UNCHANGED PresFrame

InitPresence ==
    /\ cfg \in PresConfigs
    /\ InitState

NextPresence ==
    \/ \E who \in PresCallers, rk \in PresRooms :
          PresJoin(who[1], who[2], rk) \/ PresLeave(who[1], who[2], rk)
    \/ \E who \in PresCallers : PresCleanup(who[1], who[2])
    \/ \E rk \in PresRooms : PresCleanupLeave(rk)

SpecPresence == InitPresence /\ [][NextPresence]_vars

\* ------------------------------------------------------------- SpecBucket
\* one TokenBucket of a validated policy (rps and burst above 0) asked by its
\* owner as time passes
BucketRates == {1, 2, U32 - 1}
BucketSteps == {49, 1000, 70000}

BucketNew(rps, burst, checked) ==
    [on |-> TRUE, checked |-> checked, burst |-> burst, now |-> 0,
     b |-> TokenBucket_new(rps, burst, 0), ok |-> "none",
     prev |-> TokenBucket_new(rps, burst, 0), at |-> 0, streak |-> 0, fresh |-> TRUE,
     ticks |-> 0, allows |-> 0]

\* Instant::now() moves on
BucketTick(d) ==
    /\ bucket.on /\ bucket.ok # "panic"
    /\ bucket.ticks < MaxTicks
    /\ bucket' = [bucket EXCEPT !.now = @ + d, !.ticks = @ + 1, !.fresh = FALSE]
    /\ UNCHANGED <<appvars, hot>>

\* RateLimiter::allow: the bucket's allow(); streak counts the calls that
\* succeeded since the bucket was made, as long as no time has passed
BucketAllow ==
    /\ bucket.on /\ bucket.ok # "panic"
    /\ bucket.allows < MaxAllows
    /\ LET r == TokenBucket_allow(bucket.b, bucket.now, bucket.checked)
       IN bucket' = [bucket EXCEPT !.b = r.b, !.ok = r.ok, !.prev = bucket.b,
                                   !.at = bucket.now, !.allows = @ + 1,
                                   !.streak = IF bucket.fresh /\ r.ok = "true" THEN @ + 1
                                              ELSE @]
    /\ UNCHANGED <<appvars, hot>>

InitBucket ==
    /\ cfg \in {[limits |-> DefaultLimits, policy |-> MultiPolicy]}
    /\ FreshState
    /\ handshake = HandshakeOff /\ hot = NoHot
    /\ call = NoCall /\ send_fail_count = 0 /\ tally = TallyOf(0)
    /\ \E rps \in BucketRates, burst \in BucketRates, checked \in BOOLEAN :
          bucket = BucketNew(rps, burst, checked)

NextBucket == (\E d \in BucketSteps : BucketTick(d)) \/ BucketAllow

SpecBucket == InitBucket /\ [][NextBucket]_vars

\* ------------------------------------------------------------ SpecTimeout
\* publish_room_reliable called with timeout_ms = ChatTimeoutMs; the writers
\* may stay idle for ever, so a full queue may stay full
PublishStep(c) ==
    \/ (\E k \in loc[c].pub_keys : PublishResolve(c, k))
    \/ (\E d \in loc[c].pub_futs : PublishReliable(c, d) \/ PublishReliableTimeout(c, d))
    \/ PublishDone(c)

NextTimeout ==
    \E c \in Conns :
        \/ PublishRoomReliable(c, active_room[c], ChatTimeoutMs)
        \/ PublishStep(c)
        \/ WriterSend(c)
        \/ Exit(c)

\* the runtime polls a publish that can go on: every future is completed by its
\* send or by its timer
SpecTimeout ==
    InitPublish /\ [][NextTimeout]_vars /\ \A c \in Conns : WF_vars(PublishStep(c))

\* ---------------------------------------------------------------- claims
\* every connection task has returned
AllExited == \A c \in Conns : pc[c] = "gone"

\* C1: no leak: once every connection loop has exited, the session table is empty
\* and sessions_in(r) is empty for every room r.
C1_NoLeak ==
    AllExited => /\ len_sessions = 0
                 /\ \A r \in Rooms : sessions_in(room_key(Tenant, r)) = {}

\* a step of connection a inside SessionCleanup::drop
InDrop(a) ==
    \/ pc[a] \in {"rm_index", "rm_index_drop", "rm_sessions", "rm_counter"} /\ loc[a].rm_ret = "drop"
    \/ pc[a] \in {"cs_start", "cs_loop"} /\ loc[a].cs_ret = "drop"
    \/ loc[a].lv_ret = "cs" /\ loc[a].cs_ret = "drop"
    \/ pc[a] = "drop_gauge"

DropStep(a) == InDrop(a) /\ (pc'[a] # pc[a] \/ loc'[a] # loc[a])

\* the registry entry under connection b's session_key is b's own
OwnsEntry(b) == Has(sessions, MyKey(b)) /\ sessions[MyKey(b)].conn = b

\* C2: while a connection is in the steady loop and has not been evicted, the
\* exit of any other connection removes neither its session_key from the session
\* table nor its rooms from presence; only its own guard and evict_oldest do.
C2_OnlyOwnGuardRemoves ==
    [][\A a \in Conns, b \in Conns :
          (a # b /\ DropStep(a) /\ pc[b] = "steady" /\ b \notin evicted /\ OwnsEntry(b))
          => /\ Has(sessions', MyKey(b))
             /\ \A rk \in DOMAIN room_to_sessions :
                   MyKey(b) \in room_to_sessions[rk]
                   => Has(room_to_sessions', rk) /\ MyKey(b) \in room_to_sessions'[rk]]_vars

\* C7: a connection refused under on_exceed = deny has sys.error
\* TOO_MANY_SESSIONS written to its socket before it is closed, and is never
\* inserted into the session registry.
C7_DenyWritten ==
    \A c \in Conns :
        (pc[c] = "gone" /\ why[c] = "deny")
        => /\ \E i \in DOMAIN sock[c] :
                  sock[c][i] = sys_error_json("TOO_MANY_SESSIONS", "limit exceeded", c)
           /\ \A k \in DOMAIN sessions : sessions[k].conn # c

\* C8: when the kick of a victim completes, the victim's queue has received
\* sys.kicked and then Close 1008 in that order, and the victim is already out of
\* the session table (the newcomer is not yet in it).
C8_KickDelivered ==
    [][\A c \in Conns :
          (pc[c] = "kick_close" /\ pc'[c] = "cs_start")
          => LET v == loc[c].vconn
                 e == enq'[v]
             IN /\ \E i \in DOMAIN e, j \in DOMAIN e :
                       /\ i < j
                       /\ e[i] = sys_kicked_json("max_sessions_exceeded", c)
                       /\ e[j] = CloseFrame(1008, "kicked")
                /\ \A k \in DOMAIN sessions' : sessions'[k].conn \notin {v, c}]_vars

\* C9: under any interleaving of upgrades of one user, the number of the user's
\* sessions in the user index never exceeds max_sessions_per_user.
C9_UserQuota == count_user_sessions(UK) <= cfg.policy.sessions.max_sessions_per_user

\* C10: with max_sessions_total > 0 the session table never holds more than
\* max_sessions_total sessions of the tenant; the counter is above the maximum
\* only while a try_insert is between its increment and its revert; a try_insert
\* that returns ResourceExhausted leaves the counter at its value before the call
\* and leaves the session table and the user index as they were.
C10_TenantCap ==
    [][LET max_total == cfg.limits.max_sessions_total
       IN /\ max_total > 0 => Cardinality(DOMAIN sessions') <= max_total
          /\ (max_total > 0 /\ count_tenant_sessions(Tenant)' > max_total)
             => \E c \in Conns : pc'[c] = "ti_check"
          /\ \A c \in Conns :
                (pc[c] \in {"ti_start", "ti_check"} /\ pc'[c] = "gone")
                => /\ why'[c] = "ResourceExhausted"
                   /\ count_tenant_sessions(Tenant)' = loc'[c].ti_before
                   /\ sessions' = sessions
                   /\ user_index' = user_index]_vars

\* C3: in the steady loop, handling a frame or a tick always completes, even when
\* the session's own outbound queue is full: the loop never waits forever on a
\* send to its own queue.
C3_NeverBlocked == \A c \in Conns : pc[c] # "blocked"

IsPrefix(p, q) == Len(p) <= Len(q) /\ p = SubSeq(q, 1, Len(p))

\* C4: FIFO per session: what the loop has written to the socket is, in order, what
\* was enqueued first on the session's queue, and while the loop runs the messages
\* written followed by the messages still queued are exactly the messages
\* enqueued, in enqueue order, whichever producers enqueued them.
C4_Fifo ==
    \A c \in Conns :
        /\ IsPrefix(sock[c], enq[c])
        /\ pc[c] # "gone" => enq[c] = sock[c] \o queue[c]

\* a socket has received its own sys.joined and then a chat message fanned out by
\* another session
C4_Witness ==
    \E c \in Conns : \E i \in DOMAIN sock[c], j \in DOMAIN sock[c] :
        /\ i < j
        /\ sock[c][i] = sys_joined_json(1, c)
        /\ sock[c][j].k = "chat"
        /\ sock[c][j].arg # c

\* the place of a check in the order length, rate, allowlist, dispatch
CheckRank(x) ==
    CASE x = "len" -> 1 [] x = "rate" -> 2 [] x = "allow" -> 3 [] OTHER -> 4

\* C5: on either lane and under every rate_limit_scope the length check comes
\* strictly before any rate-limit check, the rate-limit check before the allowlist
\* check, and the allowlist check before dispatch; an oversize frame always ends in
\* the Close decision, whatever the buckets hold.
C5_PolicyOrder ==
    \A c \in Conns :
        last[c].lane \in {"Text", "Hot"}
        => /\ \A i \in DOMAIN last[c].checks, j \in DOMAIN last[c].checks :
                 i < j => CheckRank(last[c].checks[i]) <= CheckRank(last[c].checks[j])
           /\ last[c].checks # <<>> /\ last[c].checks[1] = "len"
           /\ last[c].big => last[c].act \in {"reply_break", "break"}

\* the sys.error a terminal exit announces
TerminalError(c) ==
    CASE why[c] = "idle_timeout" -> sys_error_json("TIMEOUT", "idle", c)
      [] why[c] = "policy_close" -> sys_error_json("BAD_REQUEST", "frame too large", c)
      [] OTHER -> sys_error_json("BAD_REQUEST", DecodeErrorText(last[c].kind), c)

\* C6: when the loop leaves the steady state on a policy Close decision, a decode
\* error or the idle timeout, the sys.error of that exit has been written to the
\* client socket by the time the connection is torn down.
C6_TerminalErrorWritten ==
    \A c \in Conns :
        (pc[c] = "gone" /\ why[c] \in {"policy_close", "decode_error", "idle_timeout"})
        => \E i \in DOMAIN sock[c] : sock[c][i] = TerminalError(c)

\* a try_insert has been refused while the table holds max_sessions_total sessions
C10_Witness ==
    /\ cfg.limits.max_sessions_total > 0
    /\ Cardinality(DOMAIN sessions) = cfg.limits.max_sessions_total
    /\ \E c \in Conns : pc[c] = "gone" /\ why[c] = "ResourceExhausted"
                        /\ loc[c].ti_before = cfg.limits.max_sessions_total

\* no connection is inside try_insert, remove_session or evict_oldest
RegistryIdle ==
    \A c \in Conns : pc[c] \notin {"ti_start", "ti_add", "ti_check", "ti_index", "ti_sessions",
                                   "rm_index", "rm_index_drop", "rm_sessions", "rm_counter",
                                   "ev_keys", "ev_scan"}

\* the session-table entries of tenant t
TenantEntries(t) == {k \in DOMAIN sessions : sessions[k].tenant_id = t}

\* C11: whenever no registry operation is in progress the tenant counter equals
\* the number of session-table entries of the tenant, and it is 0 once every
\* connection has exited.
C11_CounterConverges ==
    RegistryIdle
    => /\ count_tenant_sessions(Tenant) = Cardinality(TenantEntries(Tenant))
       /\ AllExited => count_tenant_sessions(Tenant) = 0

\* C12: once the draining flag is set no upgrade is accepted and no session is
\* inserted into the session registry, whatever upgrades were in flight.
C12_DrainingRefuses ==
    [][draining => /\ \A c \in Conns : pc[c] = "new" => pc'[c] \in {"new", "gone"}
                   /\ \A k \in DOMAIN sessions' : Has(sessions, k) /\ sessions'[k] = sessions[k]]_vars

\* C13: when best_effort_shutdown_all has returned, every session it found in the
\* registry whose connection is still open has had Close 1001 "draining" enqueued
\* on its outbound queue.
C13_DrainClose ==
    shutdown.pc = "done"
    => \A e \in shutdown.sessions :
          RxOpen(e[2]) => \E i \in DOMAIN enq[e[2]] : enq[e[2]][i] = CloseFrame(1001, "draining")

\* C14: after the draining flag is set a connection loop handles at most the
\* message it was handling, and no further one.
C14_DrainExit ==
    draining => \A c \in Conns : nframes[c] <= shutdown.frames[c] + 1

\* every connection but c is before its upgrade, in its select loop, or finished
OthersSettled(c) == \A d \in Conns \ {c} : pc[d] \in {"new", "steady", "blocked", "gone"}

\* C15: once evict_oldest has removed a session and the kick is complete, the
\* victim's loop hands no further inbound frame to the room short-path or to a
\* service.
C15_EvictionCancels ==
    [][\A c \in Conns :
          (c \in evicted /\ OthersSettled(c) /\ pc[c] = "steady" /\ nframes'[c] > nframes[c])
          => last'[c].act \notin {"join", "leave", "chat", "echo"}]_vars

\* no connection is inside try_join, leave or cleanup_session
PresenceIdle ==
    \A c \in Conns : pc[c] \notin
        {"tj_limits", "tj_new", "tj_counter", "tj_r2s", "tj_s2r", "tj_refs", "tj_r2u",
         "tj_u2r", "lv_routing", "lv_routing_drop", "lv_s2r", "lv_s2r_drop", "lv_refs",
         "lv_refs_drop", "lv_u2r", "lv_u2r_drop", "lv_r2u", "lv_r2u_drop", "lv_counter",
         "cs_start", "cs_loop"}

RefCount(r) == GetOr(user_room_refs, ref_key(UK, room_key(Tenant, r)), 0)

\* C16: I3: between presence operations, for the user and every room r,
\* user_to_rooms[u] contains r iff user_room_refs[(u,r)] > 0, and room_to_users[r]
\* contains u iff user_room_refs[(u,r)] > 0.
C16_GovernanceMatchesRefs ==
    PresenceIdle =>
        \A r \in Rooms :
            /\ room_key(Tenant, r) \in GetOr(user_to_rooms, UK, {}) <=> RefCount(r) > 0
            /\ UK \in GetOr(room_to_users, room_key(Tenant, r), {}) <=> RefCount(r) > 0

\* C17: between presence operations user_room_refs[(u,r)] equals the number of the
\* user's session_keys in room_to_sessions[r], and once every session has exited
\* no governance entry of the user is left.
C17_RefsCountSessions ==
    PresenceIdle =>
        /\ \A r \in Rooms : RefCount(r) = Cardinality(sessions_in(room_key(Tenant, r)))
        /\ AllExited => /\ user_room_refs = EmptyMap
                        /\ user_to_rooms = EmptyMap
                        /\ room_to_users = EmptyMap

\* C18: I4: between presence operations tenant_room_counts[t] equals the number
\* of room_keys of t whose session set is non-empty.
C18_RoomCountMatches ==
    PresenceIdle =>
        GetOr(tenant_room_counts, Tenant, 0) =
            Cardinality({rk \in DOMAIN room_to_sessions : room_to_sessions[rk] # {}})

\* the presence maps and the tenant room counter
PresenceMaps == <<room_to_sessions, session_to_rooms, room_to_users, user_to_rooms,
                  user_room_refs, tenant_room_counts>>

PairDone == nframes[1] = 2 /\ pc[1] \in {"steady", "blocked"}

\* C20: P7: a successful try_join followed by leave with the same arguments
\* returns the user_room_refs entry of (user, room) to its value before the
\* try_join, absent if it was absent.
C20_JoinLeaveRestoresRefs == PairDone => user_room_refs = prior

\* the pair is complete on an entry that was absent before it
C20_Witness == PairDone /\ prior = EmptyMap /\ last[1].act = "leave"

\* one turn of the lossy publish of c, for recipient key k: a recipient with room
\* gets the message at the back of its queue, a full or closed one is counted as
\* a drop and no queue changes; the publisher goes on
LossyTurn(c, k) ==
    LET d == get_session(k)
    IN /\ pc'[c] = "pub_lossy"
       /\ d = NoConn => queue' = queue /\ drop_count' = drop_count
       /\ (d # NoConn /\ try_send_ok(d)) =>
             /\ queue' = [queue EXCEPT ![d] = Append(@, BinaryMsg(c))]
             /\ drop_count' = drop_count
       /\ (d # NoConn /\ ~try_send_ok(d)) =>
             /\ queue' = queue
             /\ drop_count' = drop_count + 1

\* C21: publish_room_lossy never blocks: while it runs, its next turn or its return
\* can always be taken; a recipient whose queue is full loses the message with its
\* queue unchanged and the drop counted, and the other recipients get theirs.
C21_LossyNeverBlocks ==
    /\ [](\A c \in Conns :
            pc[c] = "pub_lossy" =>
                ENABLED ((\E k \in loc[c].pub_keys : PublishLossy(c, k)) \/ PublishDone(c)))
    /\ [][\A c \in Conns :
            (pc[c] = "pub_lossy" /\ loc'[c].pub_keys # loc[c].pub_keys) =>
                \E k \in loc[c].pub_keys :
                    loc'[c].pub_keys = loc[c].pub_keys \ {k} /\ LossyTurn(c, k)]_vars

\* a lossy publish has ended with one recipient dropped and another served
C21_Witness ==
    \E c \in Conns, d \in Conns :
        /\ pc[c] = "pub_lossy" /\ loc[c].pub_keys = {}
        /\ drop_count = 1
        /\ Len(queue[d]) > 0 /\ queue[d][Len(queue[d])] = BinaryMsg(c)
        /\ \E e \in Conns \ {d} : RxOpen(e) /\ Len(queue[e]) = QueueCap
                                    /\ queue[e][QueueCap] # BinaryMsg(c)

RejectedText(c) ==
    /\ pc[c] = "steady"
    /\ nframes'[c] = nframes[c] + 1
    /\ last'[c].lane = "Text"
    /\ last'[c].dec = "Reject"

\* the message of check_text's Reject under the tenant's ext_allowlist
RejectText ==
    IF cfg.policy.ext_allowlist = {} THEN "ext_allowlist empty (strict deny)"
    ELSE "svc/type not allowed"

\* C23: when check_text rejects a text frame, exactly one sys.error with code
\* BAD_REQUEST and the decision's message is enqueued to the sender and to nobody
\* else, the frame starts no join, leave or publish, and the session stays in the
\* steady state and in the registry.
C23_RejectKeepsConnection ==
    [][\A c \in Conns :
          RejectedText(c)
          => /\ enq'[c] = Append(enq[c], sys_error_json("BAD_REQUEST", RejectText, c))
             /\ \A d \in Conns \ {c} : enq'[d] = enq[d]
             /\ pc'[c] = "steady"
             /\ loc'[c] = LocInit
             /\ UNCHANGED <<active_room, sessions, user_index, presvars>>]_vars


\* connection c takes an inbound frame of one of the two lanes in this step
LaneFrameTaken(c) ==
    /\ pc[c] = "steady"
    /\ nframes'[c] = nframes[c] + 1
    /\ last'[c].lane \in {"Text", "Hot"}

\* C24: under rate_limit_scope connection or both, every inbound frame of either
\* lane is put to the connection's token bucket, and a hot frame that finds the
\* bucket empty is dropped: nothing is enqueued, nothing is dispatched, and the
\* loop goes on.
C24_ConnLimitBothLanes ==
    [][\A c \in Conns :
          (new_connection_limiter /\ LaneFrameTaken(c))
          => /\ last'[c].conn_asked
             /\ (last'[c].lane = "Hot" /\ last'[c].conn_empty)
                => /\ last'[c].act = "continue"
                   /\ last'[c].checks = <<"rate">>
                   /\ UNCHANGED <<pc, loc, enq, queue>>]_vars


\* connection c takes a binary frame in this step
BinaryTaken(c) ==
    /\ pc[c] = "steady"
    /\ nframes'[c] = nframes[c] + 1
    /\ last'[c].kind = "binary"

\* C25: under hot_error_mode = silent a binary frame, whatever is wrong with it,
\* puts no sys.error on the queue of the session that sent it.
C25_SilentHotErrors ==
    [][\A c \in Conns :
          (cfg.policy.hot_error_mode = "silent" /\ BinaryTaken(c))
          => ~\E i \in DOMAIN enq'[c] : i > Len(enq[c]) /\ enq'[c][i].k = "error"]_vars


\* connection c, in no room, takes a hot frame in this step
HotTakenOutsideRoom(c) ==
    /\ pc[c] = "steady"
    /\ nframes'[c] = nframes[c] + 1
    /\ last'[c].lane = "Hot"
    /\ active_room[c] = NoRoom

\* C26: under hot_requires_active_room a hot frame of a session without an active
\* room is never dispatched to a service, and one that passes the policy is
\* answered per hot_error_mode (sys.error "no active room" or nothing), the loop
\* staying in the steady state.
C26_HotNeedsRoom ==
    [][\A c \in Conns :
          (cfg.policy.hot_requires_active_room /\ HotTakenOutsideRoom(c))
          => /\ \A i \in DOMAIN last'[c].checks : last'[c].checks[i] # "dispatch"
             /\ pc'[c] \notin {"pub_lossy", "pub_rel"}
             /\ last'[c].dec = "Pass"
                => /\ pc'[c] = "steady"
                   /\ enq'[c] = IF cfg.policy.hot_error_mode = "sys_error"
                                THEN Append(enq[c], sys_error_json("BAD_REQUEST",
                                                                   "no active room", c))
                                ELSE enq[c]]_vars


\* the sys.* messages
SysKinds == {"authed", "joined", "left", "error", "kicked"}

\* C27: every sys.* message enqueued to a session carries the trace id minted at
\* the upgrade of that session's own connection.
C27_OwnTraceId ==
    \A c \in Conns : \A i \in DOMAIN enq[c] :
        enq[c][i].k \in SysKinds => enq[c][i].trace_id = c


\* no upgrade, admission, kick or cleanup is in progress
AllSettled == \A c \in Conns : pc[c] \in {"new", "steady", "blocked", "gone"}

\* the admitted connections whose loop has not exited
LoopsRunning == {c \in Conns : pc[c] \in {"steady", "blocked"}}

\* C28: the active-session gauge is never negative, and whenever no admission or
\* cleanup is in progress it equals the number of admitted connections whose
\* loop has not exited.
C28_GaugeCountsSessions ==
    /\ ws_active_sessions >= 0
    /\ AllSettled => ws_active_sessions = Cardinality(LoopsRunning)


\* C29: sys.authed is the first message placed on the outbound queue of an
\* admitted session: nothing is enqueued between its insertion into the registry
\* and its sys.authed, so a queue that holds sys.authed holds it first.
C29_AuthedFirst ==
    \A c \in Conns :
        /\ pc[c] \in {"admitted", "authed"} => enq[c] = <<>>
        /\ (\E i \in DOMAIN enq[c] : enq[c][i].k = "authed") => enq[c][1].k = "authed"


\* the session keys a reader finds in the user index
IndexedKeys == UNION {user_index[u] : u \in DOMAIN user_index}

\* C30: in every state a concurrent reader can see, a session key is in the
\* session table iff it is in the user index, also while try_insert,
\* remove_session or evict_oldest is running.
C30_IndexMatchesTable == DOMAIN sessions = IndexedKeys


\* check has answered Ok to connection d
PassedCheck(d) == pc[d] = "hs_ok" \/ handshake.resp[d].status \in {101, 503}

\* connection c's check reaches the per-IP bucket of an address whose bucket is
\* in the map and gave its token to another check less than a second ago
SecondCheckEarly(c) ==
    /\ pc[c] = "hs_ip"
    /\ handshake.cfg.per_ip_burst = 1
    /\ handshake.cfg.per_ip_rps = 1
    /\ Has(handshake.per_ip, handshake.resp[c].ip)
    /\ \E d \in Conns \ {c} :
          /\ PassedCheck(d)
          /\ handshake.resp[d].ip = handshake.resp[c].ip
          /\ (handshake.now - handshake.resp[d].at) * handshake.cfg.per_ip_rps < TokenScale

SeqBytes(b) == b[5] + 256 * b[6] + 65536 * b[7] + 16777216 * b[8]

\* the frame the wire layout puts in the bytes b: header, sequence number when
\* flagged, the rest as payload
FrameIn(b) ==
    IF b[4] % 2 = 1
    THEN HotFrame(b[1], b[2], b[3], b[4], SomeSeq(SeqBytes(b)), SubSeq(b, 9, Len(b)))
    ELSE HotFrame(b[1], b[2], b[3], b[4], NoSeq, SubSeq(b, 5, Len(b)))

\* the frame is too short for its header or for the sequence number it flags
HotTooShort(b) == Len(b) < 4 \/ (b[4] % 2 = 1 /\ Len(b) < 8)

HotCode(r, code) == r.tag = "err" /\ r.code = code

\* C32 as stated: decode_hot_frame never panics; it answers UNSUPPORTED_VERSION
\* whenever the version byte is not 1, BAD_REQUEST when the frame is shorter
\* than 4 bytes or flags a sequence number and is shorter than 8, and otherwise
\* the header fields, the little-endian sequence number and the remaining
\* bytes as payload, which encode back to the same bytes.
C32_VersionByteFirst ==
    hot.res.tag # "none" =>
        LET b == hot.buf
            r == hot.res
        IN /\ r.tag # "panic"
           /\ IF Len(b) >= 1 /\ b[1] # 1 THEN HotCode(r, "UNSUPPORTED_VERSION")
              ELSE IF HotTooShort(b) THEN HotCode(r, "BAD_REQUEST")
              ELSE /\ r = HotOk(FrameIn(b))
                   /\ decode_hot_frame(encode_hot_frame(r.frame)) = r

\* C32 amended: decode_hot_frame never panics; it answers BAD_REQUEST when the
\* frame is shorter than 4 bytes, UNSUPPORTED_VERSION when it has 4 bytes or
\* more and the version byte is not 1, BAD_REQUEST when the version is 1, the
\* sequence flag is set and fewer than 8 bytes are present, and otherwise the
\* header fields, the little-endian sequence number and the remaining bytes
\* as payload; encoding that frame gives the bytes back and decoding those
\* gives the frame back.
C32_HotDecode ==
    hot.res.tag # "none" =>
        LET b == hot.buf
            r == hot.res
        IN /\ r.tag # "panic"
           /\ IF Len(b) < 4 THEN HotCode(r, "BAD_REQUEST")
              ELSE IF b[1] # 1 THEN HotCode(r, "UNSUPPORTED_VERSION")
              ELSE IF HotTooShort(b) THEN HotCode(r, "BAD_REQUEST")
              ELSE /\ r = HotOk(FrameIn(b))
                   /\ encode_hot_frame(r.frame) = b
                   /\ decode_hot_frame(encode_hot_frame(r.frame)) = r

\* a frame with a sequence number and a payload has been decoded
C32_Witness ==
    /\ hot.res.tag = "ok"
    /\ hot.res.frame.seq.some
    /\ hot.res.frame.seq.v > 16777216
    /\ hot.res.frame.payload # <<>>


\* C39: whenever no registry operation is in progress, every session key in
\* the session table is in the user index, also after a try_insert has run
\* against a remove_session that emptied and deleted the user's index set.
C39_IndexSurvivesChurn == RegistryIdle => DOMAIN sessions \subseteq IndexedKeys


\* connection c's evict_oldest is at the sessions.remove of its victim, which is
\* still registered
EvictRemoves(c) ==
    /\ pc[c] = "rm_sessions"
    /\ loc[c].rm_ret = "evict"
    /\ Has(sessions, loc[c].rm_key)

\* C33: evict_oldest removes and returns the user's registered session with the
\* smallest created_seq; created_seq comes from a counter that only grows, so
\* registered sessions have distinct values below it; evict_oldest changes
\* nothing while it looks for its victim and returns None when it finds none.
C33_EvictsOldest ==
    /\ [](\A j, k \in DOMAIN sessions :
             /\ sessions[k].created_seq >= 1
             /\ sessions[k].created_seq < seq
             /\ j # k => sessions[j].created_seq # sessions[k].created_seq)
    /\ [][\A c \in Conns :
             /\ EvictRemoves(c) /\ pc'[c] # pc[c] =>
                   /\ \A j \in DOMAIN sessions :
                         sessions[loc[c].rm_key].created_seq <= sessions[j].created_seq
                   /\ sessions' = Del(sessions, loc[c].rm_key)
                   /\ loc'[c].vconn = sessions[loc[c].rm_key].conn
             /\ pc[c] \in {"ev_keys", "ev_scan"} /\ loc'[c] # loc[c] =>
                   /\ UNCHANGED <<sessions, user_index, tenant_counts, seq>>
                   /\ (pc'[c] = "ti_start" /\ pc[c] = "ev_scan") => loc[c].victim = NoKey
             /\ seq' >= seq]_vars


\* C34: remove_session is exactly-once: of the remove_session and evict_oldest
\* calls that name a registered session exactly one returns its queue handle
\* and decrements the tenant counter, once; every other call returns None and
\* leaves the counter as it is.  So handles returned never outnumber sessions
\* registered, and once every connection has exited there is one for each.
C34_RemoveOnce ==
    /\ [](/\ tally.returned <= tally.inserted
          /\ AllExited => tally.returned = tally.inserted)
    /\ [][\A c \in Conns :
             /\ (pc[c] = "rm_sessions" /\ pc'[c] # pc[c]) =>
                   IF Has(sessions, loc[c].rm_key)
                   THEN /\ pc'[c] = "rm_counter"
                        /\ loc'[c].vconn = sessions[loc[c].rm_key].conn
                        /\ ~Has(sessions', loc[c].rm_key)
                   ELSE /\ pc'[c] # "rm_counter"
                        /\ loc'[c].vconn = NoConn
                        /\ tenant_counts' = tenant_counts
             /\ (pc[c] = "rm_counter" /\ pc'[c] # pc[c]) =>
                   tenant_counts'[Tenant] = fetch_sub(tenant_counts[Tenant])]_vars


\* C35: in sequential use of try_join, leave and cleanup_session no room has
\* more than max_users_per_room users in room_to_users, no user more than
\* max_rooms_per_user rooms in user_to_rooms, and the tenant room count is at
\* most max_rooms_total (each when > 0); a try_join of a user who is in the
\* room is never refused by the room limit, nor a try_join of a room the user
\* has joined by the user's room limit.
C35_SequentialLimits ==
    /\ [](/\ cfg.limits.max_users_per_room > 0 =>
                \A rk \in DOMAIN room_to_users :
                    Cardinality(room_to_users[rk]) <= cfg.limits.max_users_per_room
          /\ cfg.limits.max_rooms_per_user > 0 =>
                \A uk \in DOMAIN user_to_rooms :
                    Cardinality(user_to_rooms[uk]) <= cfg.limits.max_rooms_per_user
          /\ cfg.limits.max_rooms_total > 0 =>
                GetOr(tenant_room_counts, Tenant, 0) <= cfg.limits.max_rooms_total)
    /\ [][(call' # call /\ call'.op = "try_join") =>
             /\ call'.uk \in GetOr(room_to_users, call'.rk, {})
                   => call'.err # "room user limit reached"
             /\ call'.rk \in GetOr(user_to_rooms, call'.uk, {})
                   => call'.err # "user room limit reached"]_vars

\* a user who is in a full room joins it with a second session
C35_Witness ==
    /\ call.op = "try_join"
    /\ call.err = ""
    /\ cfg.limits.max_users_per_room > 0
    /\ Has(room_to_users, call.rk)
    /\ Cardinality(room_to_users[call.rk]) = cfg.limits.max_users_per_room
    /\ GetOr(user_room_refs, ref_key(call.uk, call.rk), 0) = 2
    /\ Cardinality(GetOr(room_to_sessions, call.rk, {})) = 2


\* C36: the token bucket.  tokens stays within 0..capacity; allow() answers
\* true iff a token is there after the refill and takes exactly one; from a
\* full bucket with no time passing exactly burst calls succeed; the refill
\* adds nothing below 50 ms and otherwise elapsed_ms * rps / 1000 clamped to
\* capacity, moving `last` only when it added something; no arithmetic of it
\* leaves its integer type, whatever u32 rps and burst.
C36_TokenBucket ==
    bucket.on =>
        /\ bucket.ok # "panic"
        /\ bucket.b.tokens \in 0..bucket.b.capacity
        /\ bucket.streak <= bucket.burst
        /\ (bucket.fresh /\ bucket.ok = "false") => bucket.streak = bucket.burst
        /\ bucket.ok \in {"true", "false"} =>
              LET want == refill_exact(bucket.prev, bucket.at, FALSE).b
              IN /\ bucket.ok = "true" <=> want.tokens >= 1
                 /\ bucket.b.tokens = IF want.tokens >= 1 THEN want.tokens - 1 ELSE 0
                 /\ bucket.b.last = want.last


\* C37: publish_room_reliable with timeout_ms > 0 terminates: a publish under way
\* can always take a step whatever the queues hold, and it returns; a future
\* leaves futs only with the message enqueued, with the channel closed, or at
\* its deadline with the queue full and untouched and SEND_FAIL_COUNT one
\* higher, the other futures staying to be served.
C37_ReliableTimeoutEnds ==
    /\ [](\A c \in Conns : (pc[c] = "pub_rel" /\ loc[c].do_timeout) => ENABLED PublishStep(c))
    /\ \A c \in Conns : (pc[c] = "pub_rel" /\ loc[c].do_timeout) ~> (pc[c] # "pub_rel")
    /\ [][\A c \in Conns :
            (pc[c] = "pub_rel" /\ loc[c].do_timeout /\ loc'[c].pub_futs # loc[c].pub_futs
             /\ loc'[c].pub_keys = loc[c].pub_keys) =>
                \E d \in loc[c].pub_futs :
                    /\ loc'[c].pub_futs = loc[c].pub_futs \ {d}
                    /\ pc'[c] = "pub_rel"
                    /\ \/ enq'[d] = Append(enq[d], ChatMsg(c)) /\ send_fail_count' = send_fail_count
                       \/ ~RxOpen(d) /\ queue' = queue
                       \/ /\ RxOpen(d) /\ Len(queue[d]) = QueueCap
                          /\ queue' = queue /\ enq' = enq
                          /\ send_fail_count' = fetch_add(send_fail_count)]_vars

\* a publish with a deadline has returned with one recipient timed out and
\* another served after it
C37_Witness ==
    \E c \in Conns, d \in Conns, e \in Conns :
        /\ d # e
        /\ pc[c] = "steady" /\ nframes[c] > 0
        /\ send_fail_count = 1
        /\ RxOpen(d) /\ Len(queue[d]) = QueueCap /\ queue[d][QueueCap] # ChatMsg(c)
        /\ Len(queue[e]) > 0 /\ queue[e][Len(queue[e])] = ChatMsg(c)


\* C38: a connection loop whose active_room is Some(r) has its session_key in
\* room_to_sessions[tenant::r], whenever the loop is at its select.
C38_ActiveRoomIsMember ==
    \A c \in Conns :
        (pc[c] = "steady" /\ active_room[c] # NoRoom) =>
            MyKey(c) \in sessions_in(room_key(Tenant, active_room[c]))

====
